---- MODULE Spec2Model ----
(***************************************************************************)
(* ztest: scan orchestration (index.js), report aggregation                *)
(* (src/reporter.js) and the monitor (src/monitor.js).                     *)
(*                                                                         *)
(* Spec          the CLI scan: automaticMode resolves --only/--skip to a   *)
(*               category list and runTests invokes the probes one by one. *)
(* SpecReporter  the Reporter object: addResults, endTimer and             *)
(*               generateLinearReport on findings of the five severities.  *)
(* SpecClock     SpecReporter with the wall clock running.                 *)
(* SpecUntyped   SpecReporter plus findings that carry no severity.        *)
(* SpecMonitor   one Monitor (src/monitor.js): addUrl, monitor() cycles     *)
(*               hours apart, tracker not set up.                          *)
(* SpecCheckUrl  runChecks on one URL against every outcome of the HTTP    *)
(*               request and of the certificate request.                   *)
(* SpecHistory   runChecks once a minute, for the history bound.           *)
(* SpecTracker   the two ways to the tracker: sendToLinear and the         *)
(*               Monitor's sendAlerts.                                     *)
(* SpecProbes    testHttpResponse, testSSL and testSecurityHeaders on      *)
(*               what they observe.                                        *)
(* SpecConfig    addUrl, removeUrl, setTeam, setAssignee and getStatus     *)
(*               around monitoring cycles.                                 *)
(* SpecRace      two Monitors on the same configuration and state files.   *)
(* SpecToggles   runChecks under every setting of the check toggles.       *)
(* SpecCooldown  hourly cycles on one host, for the 4-hour window.         *)
(*                                                                         *)
(* A rendered report is the record of the parts generateLinearReport       *)
(* interpolates into its template, in template order.                      *)
(***************************************************************************)
EXTENDS Integers, Sequences, FiniteSets, TLC

VARIABLES
    pc,          \* position of the scan: idle, loop, probe, done, crashed,
                 \* sent
    url,         \* reporter.url
    only,        \* options.only split at ',' (NoOpt when the option is absent)
    skip,        \* options.skip split at ',' (NoOpt when the option is absent)
    categories,  \* the list automaticMode passes to runTests
    ci,          \* currentTest: index in categories of the category being run
    ti,          \* index in category.tests of the probe in flight
    invoked,     \* probes invoked so far: <<[cat, fn, idx, threw]>>
    logged,      \* logger.error calls of runTests, in order
    results,     \* reporter.results
    startTime,   \* reporter.startTime (NoTime before startTimer)
    endTime,     \* reporter.endTime (NoTime before endTimer)
    now,         \* the wall clock, in milliseconds
    renders,     \* outputs of generateLinearReport since the last mutation
    mpc,         \* per Monitor: absent, idle, checking, checked, sending,
                 \* crashed
    config,      \* per Monitor: this.config
    state,       \* per Monitor: this.state
    frame,       \* per Monitor: the locals of the call in progress
    configFile,  \* .monitor-config.json: <<>> or <<content>>
    stateFile,   \* .monitor-state.json: <<>> or <<content>>
    apiKey,      \* LinearClient.apiKey as loaded from .linear-config.json
    requests,    \* requests made to the tracker and its answers, in order
    console,     \* console.log calls of the Monitor and of the renderers
    cycles,      \* every history entry pushed by runChecks, in order
    calls,       \* the configuration methods called and what each returned
    included     \* every Issue put in a batch: <<[by, key, at]>>

scanVars == <<pc, only, skip, categories, ci, ti, invoked, logged>>
repVars == <<url, results, startTime, endTime, now, renders>>
monVars == <<mpc, config, state, frame, configFile, stateFile, apiKey,
             requests, console, cycles, calls, included>>
vars == <<pc, url, only, skip, categories, ci, ti, invoked, logged, results,
          startTime, endTime, now, renders, mpc, config, state, frame,
          configFile, stateFile, apiKey, requests, console, cycles,
          calls, included>>

Null == "null"
\* startTime / endTime before the timer call (null).
NoTime == -1
NoOpt == <<>>

----------------------------------------------------------------------------
(* Bounds *)

MaxOnlyLen == 2
MaxSkipLen == 1
MaxResults == 2
MaxFindings == 3
MaxTicks == 2
MaxRenders == 2
MaxUrls == 2
MaxCycles == 2
MaxHours == 7
MaxHistoryCycles == 150
MaxCheckCycles == 1
MaxTrackerCycles == 1
MaxProbeRuns == 1
MaxCalls == 3
MaxRaceCycles == 2
MaxRaceHours == 3
MaxToggleCycles == 1
MaxCooldownCycles == 6

----------------------------------------------------------------------------
(* Monitor: configuration, state and clock, src/monitor.js *)

Monitors == {1, 2}
M1 == 1

HourMs == 3600000
DayMs == 24 * HourMs
\* 4 * 60 * 60 * 1000
CooldownMs == 4 * HourMs
HistoryLimit == 100

DEFAULT_ASSIGNEE == "09375327"

\* The object loadConfig returns when there is no file.
DefaultConfig ==
    [urls       |-> <<>>,
     teamId     |-> Null,
     assigneeId |-> DEFAULT_ASSIGNEE,
     checks     |-> [httpStatus |-> TRUE, responseTime |-> TRUE,
                     sslExpiry |-> TRUE, jsErrors |-> FALSE],
     thresholds |-> [responseTime |-> 5000, sslExpiryDays |-> 14]]

\* The object loadState returns when there is no file.
DefaultState ==
    [lastCheck |-> NoTime, alerts |-> <<>>, history |-> <<>>]

\* loadConfig / loadState: the parsed file, or the default.
LoadConfig(file) == IF file = <<>> THEN DefaultConfig ELSE file[1]

LoadState(file) == IF file = <<>> THEN DefaultState ELSE file[1]

\* The locals of monitor / runChecks / sendAlerts before a call; observed
\* logs what the network showed each checkUrl of the call.
EmptyFrame ==
    [verbose |-> FALSE, results |-> <<>>, newIssues |-> <<>>,
     createdIssues |-> <<>>, si |-> 0, observed |-> <<>>]

\* console.log(text) by who, under if (verbose) where the code has it.
Log(out, enabled, who, text) ==
    IF enabled THEN Append(out, [who |-> who, text |-> text]) ELSE out

\* No Monitor has been constructed.
NoMonitor ==
    /\ mpc = [m \in Monitors |-> "absent"]
    /\ config = [m \in Monitors |-> DefaultConfig]
    /\ state = [m \in Monitors |-> DefaultState]
    /\ frame = [m \in Monitors |-> EmptyFrame]
    /\ configFile = <<>>
    /\ stateFile = <<>>
    /\ apiKey = Null
    /\ requests = <<>>
    /\ console = <<>>
    /\ cycles = <<>>
    /\ calls = <<>>
    /\ included = <<>>

----------------------------------------------------------------------------
(* The category registry, index.js *)

RegistryKeys ==
    <<"http", "ssl", "security", "browser", "performance", "responsive">>

TEST_CATEGORIES ==
    [http        |-> [name  |-> "HTTP/Response",
                      tests |-> <<"testHttpResponse", "testRedirects">>],
     ssl         |-> [name  |-> "SSL/TLS",
                      tests |-> <<"testSSL">>],
     security    |-> [name  |-> "Headers de Seguridad",
                      tests |-> <<"testSecurityHeaders", "testCookieSecurity",
                                  "testCORS">>],
     browser     |-> [name  |-> "Analisis de Navegador",
                      tests |-> <<"testWithBrowser">>],
     performance |-> [name  |-> "Rendimiento",
                      tests |-> <<"testPerformance">>],
     responsive  |-> [name  |-> "Responsive",
                      tests |-> <<"testResponsive", "takeScreenshots">>]]

\* TEST_CATEGORIES is an object literal: besides its own six keys, a lookup
\* TEST_CATEGORIES[c] finds the properties inherited from Object.prototype.
ObjectPrototypeKeys ==
    {"constructor", "toString", "valueOf", "hasOwnProperty", "__proto__"}

\* The names a user writes in --only / --skip in this model.
FilterNames == {"http", "ssl", "constructor", "nope"}

\* Truthiness of TEST_CATEGORIES[c] (index.js:214).
IsTruthyCategory(c) ==
    c \in DOMAIN TEST_CATEGORIES \/ c \in ObjectPrototypeKeys

\* category.tests of TEST_CATEGORIES[c] is an array (index.js:94); for an
\* inherited property it is undefined.
HasTests(c) == c \in DOMAIN TEST_CATEGORIES

\* Faulty variant of the inner loop: the probes of a category are taken
\* from the last declared to the first.
CategoryTestsReversed(c) ==
    [j \in 1..Len(TEST_CATEGORIES[c].tests) |->
        TEST_CATEGORIES[c].tests[Len(TEST_CATEGORIES[c].tests) + 1 - j]]

CategoryTests(c) == TEST_CATEGORIES[c].tests

----------------------------------------------------------------------------
(* Sequence helpers: Array.prototype.filter / includes *)

Includes(s, x) == \E i \in 1..Len(s) : s[i] = x

SeqsUpTo(S, n) == UNION {[1..k -> S] : k \in 1..n}

\* The values an option can take: absent, or the names between the commas.
OptionValues(n) == {NoOpt} \cup SeqsUpTo(FilterNames, n)

----------------------------------------------------------------------------
(* Probes: the collaborators runTests invokes *)

Urls == {"https://up.example", "https://down.example"}

\* results.name of each probe.
ProbeResultName ==
    [testHttpResponse    |-> "Respuesta HTTP",
     testRedirects       |-> "Redirecciones",
     testSSL             |-> "SSL/TLS",
     testSecurityHeaders |-> "Headers de Seguridad",
     testCookieSecurity  |-> "Seguridad de Cookies",
     testCORS            |-> "CORS",
     testWithBrowser     |-> "Analisis de Navegador",
     testPerformance     |-> "Rendimiento",
     testResponsive      |-> "Diseno Responsive",
     takeScreenshots     |-> "Screenshots"]

\* The finding each probe pushes from its outermost catch block, when the
\* request it starts with fails.
CatchFinding ==
    [testHttpResponse    |-> [status |-> "fail",    severity |-> "critical"],
     testRedirects       |-> [status |-> "warning", severity |-> "low"],
     testSSL             |-> [status |-> "fail",    severity |-> "high"],
     testSecurityHeaders |-> [status |-> "fail",    severity |-> "high"],
     testCookieSecurity  |-> [status |-> "fail",    severity |-> "medium"],
     testCORS            |-> [status |-> "warning", severity |-> "low"],
     testWithBrowser     |-> [status |-> "fail",    severity |-> "high"],
     testPerformance     |-> [status |-> "warning", severity |-> "low"],
     testResponsive      |-> [status |-> "fail",    severity |-> "high"],
     takeScreenshots     |-> [status |-> "fail",    severity |-> "low"]]

\* What a probe that returns hands back for a target: against a healthy
\* target one passing finding, against an unreachable one the finding of
\* its own catch block.
ProbeResults(fn, u) ==
    [name  |-> ProbeResultName[fn],
     tests |-> IF u = "https://up.example"
               THEN <<[name |-> fn, status |-> "pass", severity |-> "info",
                       recommendation |-> Null]>>
               ELSE <<[name |-> fn, status |-> CatchFinding[fn].status,
                       severity |-> CatchFinding[fn].severity,
                       recommendation |-> Null]>>]

----------------------------------------------------------------------------
(* Reporter: state changes, src/reporter.js *)

\* Faulty variant of addResults: unshift instead of push.
AddResultsUnshift(rs, categoryResults) == <<categoryResults>> \o rs

\* addResults(categoryResults): this.results.push(categoryResults)
AddResultsTo(rs, categoryResults) == Append(rs, categoryResults)

----------------------------------------------------------------------------
(* Reporter: derived views, src/reporter.js *)

Severities == {"critical", "high", "medium", "low", "info"}
Undefined == "undefined"

\* The wall clock advances in steps of TickMs milliseconds.
TickMs == 500

\* new Date().toLocaleString('es-ES'): date and time to the second.
ToLocaleString(t) == t \div 1000

\* this.endTime && this.startTime ? ((endTime - startTime) / 1000)
\* .toFixed(1) : '?', in tenths of a second (the differences of this model
\* are multiples of 100 ms); -1 stands for '?'.
Duration(st, et) ==
    IF et # NoTime /\ st # NoTime THEN (et - st) \div 100 ELSE -1

RECURSIVE AllTests(_)
\* this.results.forEach(category => category.tests.forEach(test => ...)):
\* the tests in visiting order, each with the name of its category.
AllTests(rs) ==
    IF rs = <<>> THEN <<>>
    ELSE [j \in 1..Len(Head(rs).tests) |->
             [category |-> Head(rs).name, test |-> Head(rs).tests[j]]]
         \o AllTests(Tail(rs))

\* Faulty variant of the tally: passed counts the findings of severity
\* info.
TallyPassedBySeverity(acc, test) ==
    LET p == IF test.severity = "info"
             THEN [acc EXCEPT !.passed = @ + 1] ELSE acc
    IN  IF test.severity = "critical" THEN [p EXCEPT !.critical = @ + 1]
        ELSE IF test.severity = "high" THEN [p EXCEPT !.high = @ + 1]
        ELSE IF test.severity = "medium" THEN [p EXCEPT !.medium = @ + 1]
        ELSE IF test.severity = "low" THEN [p EXCEPT !.low = @ + 1]
        ELSE p

\* Faulty variant of the tally: the chain ends in a plain else, so every
\* finding that is not critical, high or medium is counted as low.
TallyLowIsDefault(acc, test) ==
    LET p == IF test.status = "pass"
             THEN [acc EXCEPT !.passed = @ + 1] ELSE acc
    IN  IF test.severity = "critical" THEN [p EXCEPT !.critical = @ + 1]
        ELSE IF test.severity = "high" THEN [p EXCEPT !.high = @ + 1]
        ELSE IF test.severity = "medium" THEN [p EXCEPT !.medium = @ + 1]
        ELSE [p EXCEPT !.low = @ + 1]

\* The body of the inner forEach of getSummary.
Tally(acc, test) ==
    LET p == IF test.status = "pass"
             THEN [acc EXCEPT !.passed = @ + 1] ELSE acc
    IN  IF test.severity = "critical" THEN [p EXCEPT !.critical = @ + 1]
        ELSE IF test.severity = "high" THEN [p EXCEPT !.high = @ + 1]
        ELSE IF test.severity = "medium" THEN [p EXCEPT !.medium = @ + 1]
        ELSE IF test.severity = "low" THEN [p EXCEPT !.low = @ + 1]
        ELSE p

RECURSIVE TallyAll(_, _)
TallyAll(acc, ts) ==
    IF ts = <<>> THEN acc
    ELSE TallyAll(Tally(acc, Head(ts).test), Tail(ts))

GetSummary(rs) ==
    TallyAll([critical |-> 0, high |-> 0, medium |-> 0, low |-> 0,
              passed |-> 0], AllTests(rs))

\* "Hallazgos Principales": the findings of one severity, in visiting order.
FindingsOfSeverity(rs, sev) ==
    SelectSeq(AllTests(rs), LAMBDA f : f.test.severity = sev)

\* getStatusEmoji / the detail table, one row per test.
StatusEmojis == [pass |-> "ok", fail |-> "x", warning |-> "!", info |-> "i"]

GetStatusEmoji(status) ==
    IF status \in DOMAIN StatusEmojis THEN StatusEmojis[status] ELSE "?"

DetailTable(rs) ==
    [k \in 1..Len(rs) |->
        [name |-> rs[k].name,
         rows |-> [j \in 1..Len(rs[k].tests) |->
                      [name |-> rs[k].tests[j].name,
                       status |-> GetStatusEmoji(rs[k].tests[j].status)]]]]

\* if (test.recommendation) recommendations.push({severity, name,
\* recommendation}): null and undefined are falsy, a text is truthy.
CollectRecommendations(rs) ==
    LET withRec == SelectSeq(AllTests(rs),
                             LAMBDA f : f.test.recommendation # Null)
    IN  [i \in 1..Len(withRec) |->
            [severity |-> withRec[i].test.severity,
             name |-> withRec[i].test.name,
             recommendation |-> withRec[i].test.recommendation]]

severityOrder == [critical |-> 0, high |-> 1, medium |-> 2, low |-> 3,
                  info |-> 4]

\* Faulty variant of the comparator: b before a.
CompareReversed(a, b) ==
    IF a.severity \in DOMAIN severityOrder /\ b.severity \in DOMAIN severityOrder
    THEN severityOrder[b.severity] - severityOrder[a.severity]
    ELSE 0

\* (a, b) => severityOrder[a.severity] - severityOrder[b.severity], as the
\* sort sees it: a severity that is no key of severityOrder gives
\* undefined, the difference is NaN, and sort takes a NaN result for 0.
Compare(a, b) ==
    IF a.severity \in DOMAIN severityOrder /\ b.severity \in DOMAIN severityOrder
    THEN severityOrder[a.severity] - severityOrder[b.severity]
    ELSE 0

\* Array.prototype.sort of Node (V8) on an array shorter than 64: find the
\* run at the front (reversed when strictly descending), then insert the
\* remaining elements one by one at the place a binary search gives.
RECURSIVE RunEnd(_, _, _)
RunEnd(a, idx, descending) ==
    IF idx > Len(a) THEN idx - 1
    ELSE LET order == Compare(a[idx], a[idx - 1]) IN
         IF (descending /\ order >= 0) \/ (~descending /\ order < 0)
         THEN idx - 1
         ELSE RunEnd(a, idx + 1, descending)

ReverseRange(a, n) ==
    [i \in 1..Len(a) |-> IF i <= n THEN a[n + 1 - i] ELSE a[i]]

RECURSIVE BinarySearch(_, _, _, _)
BinarySearch(a, pivot, left, right) ==
    IF left >= right THEN left
    ELSE LET mid == left + ((right - left) \div 2) IN
         IF Compare(pivot, a[mid]) < 0
         THEN BinarySearch(a, pivot, left, mid)
         ELSE BinarySearch(a, pivot, mid + 1, right)

RECURSIVE BinaryInsertionSort(_, _)
BinaryInsertionSort(a, start) ==
    IF start > Len(a) THEN a
    ELSE LET pos == BinarySearch(a, a[start], 1, start)
             b == [i \in 1..Len(a) |->
                      IF i < pos \/ i > start THEN a[i]
                      ELSE IF i = pos THEN a[start]
                      ELSE a[i - 1]]
         IN  BinaryInsertionSort(b, start + 1)

Sort(a) ==
    IF Len(a) < 2 THEN a
    ELSE LET descending == Compare(a[2], a[1]) < 0
             runLength == RunEnd(a, 3, descending)
             run == IF descending THEN ReverseRange(a, runLength) ELSE a
         IN  BinaryInsertionSort(run, runLength + 1)

Recommendations(rs) == Sort(CollectRecommendations(rs))

\* "Prioridad sugerida"
SuggestedPriority(summary) ==
    IF summary.critical > 0 THEN "Urgent"
    ELSE IF summary.high > 0 THEN "High"
    ELSE IF summary.medium > 0 THEN "Medium"
    ELSE "Low"

\* generateLinearReport(): the values interpolated into the template.
LinearReport(u, st, et, rs, t) ==
    [url |-> u,
     fecha |-> ToLocaleString(t),
     duration |-> Duration(st, et),
     summary |-> GetSummary(rs),
     critical |-> FindingsOfSeverity(rs, "critical"),
     high |-> FindingsOfSeverity(rs, "high"),
     medium |-> FindingsOfSeverity(rs, "medium"),
     detail |-> DetailTable(rs),
     recommendations |-> Recommendations(rs),
     priority |-> SuggestedPriority(GetSummary(rs))]

----------------------------------------------------------------------------
(* automaticMode and runTests, index.js *)

\* index.js:211-220: the categories handed to runTests.
OnlyFilter(o) ==
    IF o # NoOpt
    THEN SelectSeq(o, LAMBDA c : IsTruthyCategory(c))
    ELSE RegistryKeys

\* Faulty variant of the --skip subtraction: only the first occurrence of
\* a skipped category is removed.
SkipFirstOccurrence(cats, s) ==
    IF s # NoOpt
    THEN LET keep == {i \in 1..Len(cats) :
                         ~(Includes(s, cats[i]) /\
                           \A j \in 1..(i - 1) : cats[j] # cats[i])}
             nth(k) == CHOOSE i \in keep :
                          Cardinality({j \in keep : j <= i}) = k
         IN  [k \in 1..Cardinality(keep) |-> cats[nth(k)]]
    ELSE cats

SkipFilter(cats, s) ==
    IF s # NoOpt
    THEN SelectSeq(cats, LAMBDA c : ~Includes(s, c))
    ELSE cats

SelectCategories(o, s) == SkipFilter(OnlyFilter(o), s)

Init ==
    /\ pc = "idle"
    /\ url = ""
    /\ only = NoOpt
    /\ skip = NoOpt
    /\ categories = <<>>
    /\ ci = 0
    /\ ti = 0
    /\ invoked = <<>>
    /\ logged = <<>>
    /\ results = <<>>
    /\ startTime = NoTime
    /\ endTime = NoTime
    /\ now = 0
    /\ renders = <<>>
    /\ NoMonitor

\* automaticMode(url, options) up to the first suspension of runTests:
\* resolve the categories, new Reporter, setUrl, startTimer.
AutomaticMode(u, o, s) ==
    /\ pc = "idle"
    /\ only' = o
    /\ skip' = s
    /\ categories' = SelectCategories(o, s)
    /\ url' = u
    /\ results' = <<>>
    /\ startTime' = now
    /\ endTime' = NoTime
    /\ ci' = 0
    /\ ti' = 0
    /\ pc' = "loop"
    /\ UNCHANGED <<invoked, logged, now, renders>>
    /\ UNCHANGED monVars

\* for (const categoryKey of categories): take the next category and
\* enter for (const testFn of category.tests). Iterating the undefined
\* tests of an inherited property throws a TypeError outside the try.
NextCategory ==
    /\ pc = "loop"
    /\ ci < Len(categories)
    /\ ci' = ci + 1
    /\ LET c == categories[ci + 1] IN
         IF ~HasTests(c)
         THEN pc' = "crashed" /\ ti' = 0
         ELSE IF CategoryTests(c) = <<>>
              THEN pc' = "loop" /\ ti' = 0
              ELSE pc' = "probe" /\ ti' = 1
    /\ UNCHANGED <<only, skip, categories, invoked, logged>>
    /\ UNCHANGED repVars
    /\ UNCHANGED monVars

AfterProbe ==
    IF ti < Len(CategoryTests(categories[ci]))
    THEN pc' = "probe" /\ ti' = ti + 1
    ELSE pc' = "loop" /\ ti' = 0

\* const results = await testFn(url, logger); reporter.addResults(results)
ProbeReturns ==
    /\ pc = "probe"
    /\ LET c == categories[ci]
           fn == CategoryTests(c)[ti] IN
         /\ invoked' = Append(invoked, [cat |-> ci, fn |-> fn, threw |-> FALSE])
         /\ results' = AddResultsTo(results, ProbeResults(fn, url))
    /\ AfterProbe
    /\ UNCHANGED <<only, skip, categories, ci, logged>>
    /\ UNCHANGED <<url, startTime, endTime, now, renders>>
    /\ UNCHANGED monVars

\* Faulty variant of the probe boundary: no try/catch, the error escapes
\* runTests.
ProbeThrowsUncaught ==
    /\ pc = "probe"
    /\ invoked' = Append(invoked, [cat |-> ci,
                                   fn |-> CategoryTests(categories[ci])[ti],
                                   threw |-> TRUE])
    /\ pc' = "crashed"
    /\ UNCHANGED <<only, skip, categories, ci, ti, logged>>
    /\ UNCHANGED repVars
    /\ UNCHANGED monVars

\* testFn throws or its promise rejects: catch (error) { logger.error(...) }
ProbeThrows ==
    /\ pc = "probe"
    /\ LET c == categories[ci]
           fn == CategoryTests(c)[ti] IN
         /\ invoked' = Append(invoked, [cat |-> ci, fn |-> fn, threw |-> TRUE])
         /\ logged' = Append(logged, [cat |-> ci, fn |-> fn])
    /\ AfterProbe
    /\ UNCHANGED <<only, skip, categories, ci>>
    /\ UNCHANGED repVars
    /\ UNCHANGED monVars

\* reporter.endTimer(); return reporter
EndScan ==
    /\ pc = "loop"
    /\ ci = Len(categories)
    /\ endTime' = now
    /\ pc' = "done"
    /\ UNCHANGED <<only, skip, categories, ci, ti, invoked, logged>>
    /\ UNCHANGED <<url, results, startTime, now, renders>>
    /\ UNCHANGED monVars

Next ==
    \/ \E u \in Urls, o \in OptionValues(MaxOnlyLen),
          s \in OptionValues(MaxSkipLen) : AutomaticMode(u, o, s)
    \/ NextCategory
    \/ ProbeReturns
    \/ ProbeThrows
    \/ EndScan

Spec == Init /\ [][Next]_vars

----------------------------------------------------------------------------
(* The Reporter between runTests and the renderers *)

\* The (status, severity, recommendation) combinations of the findings the
\* probes push: httpTests.js:32 (both outcomes), seoTests.js:121, the
\* HTTPS finding of testSSL, and the CSP, HSTS and X-Content-Type-Options
\* findings of testSecurityHeaders.
FindingKinds ==
    {[status |-> "pass",    severity |-> "info",     recommendation |-> Null],
     [status |-> "fail",    severity |-> "high",     recommendation |-> Null],
     [status |-> "info",    severity |-> "info",     recommendation |-> "rec"],
     [status |-> "fail",    severity |-> "critical", recommendation |-> "rec"],
     [status |-> "fail",    severity |-> "high",     recommendation |-> "rec"],
     [status |-> "warning", severity |-> "medium",   recommendation |-> "rec"],
     [status |-> "warning", severity |-> "low",      recommendation |-> "rec"]}

\* A finding object pushed without a severity property.
UntypedKinds ==
    {[status |-> "warning", severity |-> Undefined, recommendation |-> "rec"]}

CountFindings(rs) == Len(AllTests(rs))

\* The state runTests sets up at index.js:77-80: new Reporter(), setUrl,
\* startTimer.
InitReporter ==
    /\ pc = "loop"
    /\ url = "https://down.example"
    /\ only = NoOpt
    /\ skip = NoOpt
    /\ categories = <<>>
    /\ ci = 0
    /\ ti = 0
    /\ invoked = <<>>
    /\ logged = <<>>
    /\ results = <<>>
    /\ startTime = 0
    /\ endTime = NoTime
    /\ now = 0
    /\ renders = <<>>
    /\ NoMonitor

\* reporter.addResults(results) with the result of one probe: a name and
\* the tests it pushed, the j-th named after its place.
AddProbeResults(kinds) ==
    /\ pc = "loop"
    /\ Len(results) < MaxResults
    /\ Len(kinds) + CountFindings(results) <= MaxFindings
    /\ results' = AddResultsTo(results,
          [name  |-> <<"Respuesta HTTP", "Redirecciones", "SSL/TLS",
                       "Headers de Seguridad">>[Len(results) + 1],
           tests |-> [j \in 1..Len(kinds) |->
                        [name |-> <<Len(results) + 1, j>>,
                         status |-> kinds[j].status,
                         severity |-> kinds[j].severity,
                         recommendation |-> kinds[j].recommendation]]])
    /\ UNCHANGED scanVars
    /\ UNCHANGED <<url, startTime, endTime, now, renders>>
    /\ UNCHANGED monVars

AddResults ==
    \E kinds \in {<<>>} \cup SeqsUpTo(FindingKinds,
                                      MaxFindings - CountFindings(results)) :
        AddProbeResults(kinds)

AddUntypedResults ==
    \E kinds \in SeqsUpTo(FindingKinds \cup UntypedKinds,
                         MaxFindings - CountFindings(results)) :
        /\ \E j \in 1..Len(kinds) : kinds[j] \in UntypedKinds
        /\ AddProbeResults(kinds)

\* reporter.endTimer(); return reporter: the report is frozen.
EndTimer ==
    /\ pc = "loop"
    /\ endTime' = now
    /\ pc' = "done"
    /\ UNCHANGED <<only, skip, categories, ci, ti, invoked, logged>>
    /\ UNCHANGED <<url, results, startTime, now, renders>>
    /\ UNCHANGED monVars

\* Time passes.
Tick ==
    /\ now < MaxTicks * TickMs
    /\ now' = now + TickMs
    /\ UNCHANGED scanVars
    /\ UNCHANGED <<url, results, startTime, endTime, renders>>
    /\ UNCHANGED monVars

\* Faulty variant of the renderer: the findings themselves are sorted by
\* severity, in place.
GenerateLinearReportInPlace ==
    /\ pc = "done"
    /\ Len(renders) < MaxRenders
    /\ renders' = Append(renders,
                         LinearReport(url, startTime, endTime, results, now))
    /\ results' = [i \in 1..Len(results) |->
                     [results[i] EXCEPT !.tests = Sort(@)]]
    /\ UNCHANGED scanVars
    /\ UNCHANGED <<url, startTime, endTime, now>>
    /\ UNCHANGED monVars

\* saveToFile / copyToClipboard on the reporter runTests returned:
\* generateLinearReport().
GenerateLinearReport ==
    /\ pc = "done"
    /\ Len(renders) < MaxRenders
    /\ renders' = Append(renders,
                         LinearReport(url, startTime, endTime, results, now))
    /\ UNCHANGED scanVars
    /\ UNCHANGED <<url, results, startTime, endTime, now>>
    /\ UNCHANGED monVars

\* What generateConsoleReport prints: the url, the date, the summary
\* table and, per category, its tests.
ConsoleReport(u, rs, t) ==
    [url |-> u, fecha |-> ToLocaleString(t), summary |-> GetSummary(rs),
     detail |-> [i \in 1..Len(rs) |->
                   [name |-> rs[i].name, tests |-> rs[i].tests]]]

\* reporter.generateConsoleReport(chalk, Table), which a scan calls once
\* (index.js:162, 247).
GenerateConsoleReport ==
    /\ pc = "done"
    /\ console = <<>>
    /\ console' = Log(console, TRUE, "report",
                      ConsoleReport(url, results, now))
    /\ UNCHANGED scanVars
    /\ UNCHANGED repVars
    /\ UNCHANGED <<mpc, config, state, frame, configFile, stateFile, apiKey,
                   calls, included, requests, cycles>>

NextReporter ==
    \/ AddResults
    \/ EndTimer
    \/ GenerateLinearReport
    \/ GenerateConsoleReport

SpecReporter == InitReporter /\ [][NextReporter]_vars

\* The same with the wall clock running.
NextClock ==
    \/ AddResults
    \/ EndTimer
    \/ Tick
    \/ GenerateLinearReport

SpecClock == InitReporter /\ [][NextClock]_vars

\* The same with results whose findings may lack a severity.
NextUntyped ==
    \/ AddResults
    \/ AddUntypedResults
    \/ EndTimer
    \/ GenerateLinearReport

SpecUntyped == InitReporter /\ [][NextUntyped]_vars

----------------------------------------------------------------------------
(* Monitor.checkUrl, src/monitor.js *)

\* The strings addUrl is given: two URLs and a host name without scheme.
MonitorUrls == {"https://a.example", "http://b.example", "b.example"}

\* new URL(url) succeeds.
UrlParses(u) == u \in {"https://a.example", "http://b.example"}

\* url.startsWith('https://')
StartsWithHttps(u) == u = "https://a.example"

\* Math.ceil(a / b) for b > 0; Math.ceil of a value in (-1, 0] is (-)0.
Ceil(a, b) == -((-a) \div b)

\* What the network shows one call of checkUrl: the outcome of axios.get
\* (status and elapsed milliseconds, or a rejection) and the outcome of
\* checkSSL (a rejection, no certificate, or valid_to - now in ms).
Observations ==
    [http : {[threw |-> FALSE, status |-> st, responseTime |-> rt] :
                st \in {200, 404, 503}, rt \in {100, 6000}}
            \cup {[threw |-> TRUE, status |-> 0, responseTime |-> 0]},
     ssl  : {[threw |-> TRUE, cert |-> FALSE, remaining |-> 0],
             [threw |-> FALSE, cert |-> FALSE, remaining |-> 0]}
            \cup {[threw |-> FALSE, cert |-> TRUE, remaining |-> r] :
                    r \in {-2 * DayMs, -(DayMs \div 2), 0,
                           10 * DayMs - HourMs, 14 * DayMs, 20 * DayMs}}]

\* The title of an Issue; hostname is new URL(url).hostname.
Title(emoji, text, code, u) ==
    [emoji |-> emoji, text |-> text, code |-> code,
     hostname |-> IF u = "https://a.example" THEN "a.example"
                  ELSE "b.example"]

Issue(type, title, value, t, priority) ==
    [type |-> type, title |-> title,
     description |-> [value |-> value, tiempo |-> t],
     priority |-> priority]

\* axios.get rejects: by the network, or because the string is no URL.
HttpThrew(u, obs) == obs.http.threw \/ ~UrlParses(u)

\* Faulty variant of the HTTP status check: the >= 500 branch is missing,
\* a server error is classified like a client error.
HttpIssuesNoServerBranch(cfg, u, obs, t) ==
    IF ~cfg.checks.httpStatus THEN <<>>
    ELSE IF HttpThrew(u, obs)
    THEN <<Issue("critical", Title("red", "SITIO CAIDO", 0, u), 0, t, 1)>>
    ELSE (IF obs.http.status >= 400
          THEN <<Issue("error",
                       Title("orange", "ERROR", obs.http.status, u),
                       obs.http.status, t, 2)>>
          ELSE <<>>)
         \o
         (IF obs.http.responseTime > cfg.thresholds.responseTime
          THEN <<Issue("warning", Title("yellow", "Respuesta lenta", 0, u),
                       obs.http.responseTime, t, 3)>>
          ELSE <<>>)

\* Lines 104-156: the issues of the HTTP status check.
HttpIssues(cfg, u, obs, t) ==
    IF ~cfg.checks.httpStatus THEN <<>>
    ELSE IF HttpThrew(u, obs)
    THEN <<Issue("critical", Title("red", "SITIO CAIDO", 0, u), 0, t, 1)>>
    ELSE (IF obs.http.status >= 500
          THEN <<Issue("critical",
                       Title("red", "ERROR", obs.http.status, u),
                       obs.http.status, t, 1)>>
          ELSE IF obs.http.status >= 400
          THEN <<Issue("error",
                       Title("orange", "ERROR", obs.http.status, u),
                       obs.http.status, t, 2)>>
          ELSE <<>>)
         \o
         (IF obs.http.responseTime > cfg.thresholds.responseTime
          THEN <<Issue("warning", Title("yellow", "Respuesta lenta", 0, u),
                       obs.http.responseTime, t, 3)>>
          ELSE <<>>)

\* sslInfo.daysUntilExpiry of checkSSL, lines 205-207.
DaysUntilExpiry(obs) == Ceil(obs.ssl.remaining, DayMs)

Abs(x) == IF x < 0 THEN -x ELSE x

\* Faulty variant of the certificate check: the days are rounded down.
SslIssuesFloor(cfg, u, obs, t) ==
    IF ~(cfg.checks.sslExpiry /\ StartsWithHttps(u)) THEN <<>>
    ELSE IF obs.ssl.threw \/ ~UrlParses(u) \/ ~obs.ssl.cert THEN <<>>
    ELSE LET d == obs.ssl.remaining \div DayMs IN
         IF d < 0
         THEN <<Issue("critical",
                      Title("red", "CERTIFICADO SSL EXPIRADO", 0, u),
                      Abs(d), t, 1)>>
         ELSE IF d < cfg.thresholds.sslExpiryDays
         THEN <<Issue("warning", Title("yellow", "SSL por expirar", 0, u),
                      d, t, 2)>>
         ELSE <<>>

\* Lines 158-184: the issues of the certificate check.
SslIssues(cfg, u, obs, t) ==
    IF ~(cfg.checks.sslExpiry /\ StartsWithHttps(u)) THEN <<>>
    ELSE IF obs.ssl.threw \/ ~UrlParses(u) \/ ~obs.ssl.cert THEN <<>>
    ELSE LET d == DaysUntilExpiry(obs) IN
         IF d < 0
         THEN <<Issue("critical",
                      Title("red", "CERTIFICADO SSL EXPIRADO", 0, u),
                      Abs(d), t, 1)>>
         ELSE IF d < cfg.thresholds.sslExpiryDays
         THEN <<Issue("warning", Title("yellow", "SSL por expirar", 0, u),
                      d, t, 2)>>
         ELSE <<>>

\* Faulty variant of line 187: any non-critical issue makes the status
\* warning.
OverallStatusAnyIssueFirst(issues) ==
    IF \E i \in 1..Len(issues) : issues[i].type # "critical"
    THEN "warning"
    ELSE IF Len(issues) > 0 THEN "critical" ELSE "ok"

\* Line 187: results.status
OverallStatus(issues) ==
    IF Len(issues) > 0
    THEN IF \E i \in 1..Len(issues) : issues[i].type = "critical"
         THEN "critical" ELSE "warning"
    ELSE "ok"

\* The template literal of line 151 evaluates new URL(url) in the catch
\* block, outside any try.
CheckUrlThrows(cfg, u, obs) ==
    cfg.checks.httpStatus /\ HttpThrew(u, obs) /\ ~UrlParses(u)

\* The object checkUrl returns.
CheckUrl(cfg, u, obs, t) ==
    LET issues == HttpIssues(cfg, u, obs, t) \o SslIssues(cfg, u, obs, t) IN
    [url |-> u, timestamp |-> t, status |-> OverallStatus(issues),
     issues |-> issues]

----------------------------------------------------------------------------
(* Monitor: constructor, configuration commands, runChecks, sendAlerts *)

otherVars == <<pc, url, only, skip, categories, ci, ti, invoked, logged,
               results, startTime, endTime, renders>>

\* new Monitor(): loadConfig, loadState.
NewMonitor(m) ==
    /\ mpc[m] = "absent"
    /\ mpc' = [mpc EXCEPT ![m] = "idle"]
    /\ config' = [config EXCEPT ![m] = LoadConfig(configFile)]
    /\ state' = [state EXCEPT ![m] = LoadState(stateFile)]
    /\ UNCHANGED <<frame, configFile, stateFile, apiKey, calls, included,
                   requests, console, cycles, now>>
    /\ UNCHANGED otherVars

\* addUrl(url)
AddUrl(m, u) ==
    /\ mpc[m] = "idle"
    /\ Len(config[m].urls) < MaxUrls
    /\ ~Includes(config[m].urls, u)
    /\ config' = [config EXCEPT ![m].urls = Append(@, u)]
    /\ configFile' = <<config'[m]>>
    /\ UNCHANGED <<mpc, state, frame, stateFile, apiKey, calls, included,
                   requests, console, cycles, now>>
    /\ UNCHANGED otherVars

\* setTeam(teamId)
SetTeam(m, teamId) ==
    /\ mpc[m] = "idle"
    /\ config' = [config EXCEPT ![m].teamId = teamId]
    /\ configFile' = <<config'[m]>>
    /\ UNCHANGED <<mpc, state, frame, stateFile, apiKey, calls, included,
                   requests, console, cycles, now>>
    /\ UNCHANGED otherVars

\* The clock moves on between two calls.
Advance(ms, limit) ==
    /\ \A m \in Monitors : mpc[m] \in {"absent", "idle", "crashed"}
    /\ now + ms <= limit
    /\ now' = now + ms
    /\ UNCHANGED monVars
    /\ UNCHANGED otherVars

\* const alertKey = `${url}-${issue.type}-${issue.title}`
AlertKey(u, issue) == <<u, issue.type, issue.title>>

\* !lastAlert
NoLastAlert(alerts, key) == key \notin DOMAIN alerts \/ alerts[key] = 0

\* Faulty variant of the cooldown test: >= instead of >.
IsNewAtCooldown(alerts, key, t) ==
    NoLastAlert(alerts, key) \/ t - alerts[key] >= CooldownMs

\* Line 248: the issue is new.
IsNew(alerts, key, t) ==
    NoLastAlert(alerts, key) \/ t - alerts[key] > CooldownMs

\* Faulty variant of lines 248-251: a suppressed issue renews the
\* timestamp of its alert.
DedupIssueRenewing(acc, u, issue, t) ==
    LET key == AlertKey(u, issue) IN
    IF IsNew(acc.alerts, key, t)
    THEN [alerts    |-> (key :> t) @@ acc.alerts,
          newIssues |-> Append(acc.newIssues,
                               [type |-> issue.type, title |-> issue.title,
                                description |-> issue.description,
                                priority |-> issue.priority, url |-> u])]
    ELSE [alerts    |-> (key :> t) @@ acc.alerts,
          newIssues |-> acc.newIssues]

\* Faulty variant of lines 248-251: the issue is pushed, the timestamp of
\* the alert is not recorded.
DedupIssueNoStamp(acc, u, issue, t) ==
    LET key == AlertKey(u, issue) IN
    IF IsNew(acc.alerts, key, t)
    THEN [alerts    |-> acc.alerts,
          newIssues |-> Append(acc.newIssues,
                               [type |-> issue.type, title |-> issue.title,
                                description |-> issue.description,
                                priority |-> issue.priority, url |-> u])]
    ELSE acc

\* Lines 243-251 for one issue; acc is [alerts, newIssues].
DedupIssue(acc, u, issue, t) ==
    LET key == AlertKey(u, issue) IN
    IF IsNew(acc.alerts, key, t)
    THEN [alerts    |-> (key :> t) @@ acc.alerts,
          newIssues |-> Append(acc.newIssues,
                               [type |-> issue.type, title |-> issue.title,
                                description |-> issue.description,
                                priority |-> issue.priority, url |-> u])]
    ELSE acc

\* for (const issue of result.issues), lines 242-252.
RECURSIVE DedupFrom(_, _, _, _, _)
DedupFrom(acc, u, issues, i, t) ==
    IF i > Len(issues) THEN acc
    ELSE DedupFrom(DedupIssue(acc, u, issues[i], t), u, issues, i + 1, t)

\* runChecks(verbose) up to the first await (monitor(verbose) calls it
\* first thing).
RunChecks(m, verbose, maxCycles) ==
    /\ mpc[m] = "idle"
    /\ Len(cycles) < maxCycles
    /\ mpc' = [mpc EXCEPT ![m] = "checking"]
    /\ frame' = [frame EXCEPT ![m] = [EmptyFrame EXCEPT !.verbose = verbose]]
    /\ UNCHANGED <<config, state, configFile, stateFile, apiKey, calls,
                   included, requests, console, cycles, now>>
    /\ UNCHANGED otherVars

\* One round of for (const url of this.config.urls): checkUrl, push the
\* result, and fold its issues into alerts and newIssues. An exception of
\* checkUrl rejects runChecks.
CheckNextUrl(m, obs) ==
    /\ mpc[m] = "checking"
    /\ Len(frame[m].results) < Len(config[m].urls)
    /\ LET u == config[m].urls[Len(frame[m].results) + 1] IN
         IF CheckUrlThrows(config[m], u, obs)
         THEN /\ mpc' = [mpc EXCEPT ![m] = "crashed"]
              /\ UNCHANGED <<state, frame, included>>
         ELSE LET result == CheckUrl(config[m], u, obs, now)
                  acc == DedupFrom([alerts |-> state[m].alerts,
                                    newIssues |-> frame[m].newIssues],
                                   u, result.issues, 1, now)
                  had == Len(frame[m].newIssues) IN
              /\ frame' = [frame EXCEPT ![m].results = Append(@, result),
                                        ![m].newIssues = acc.newIssues,
                                        ![m].observed = Append(@, obs)]
              /\ state' = [state EXCEPT ![m].alerts = acc.alerts]
              /\ included' = included \o
                    [i \in 1..(Len(acc.newIssues) - had) |->
                        [by  |-> m,
                         key |-> AlertKey(u, acc.newIssues[had + i]),
                         at  |-> now]]
              /\ UNCHANGED mpc
    /\ UNCHANGED <<config, configFile, stateFile, apiKey, calls, requests,
                   console, cycles, now>>
    /\ UNCHANGED otherVars

\* Faulty variant of the truncation: the first 100 entries are kept.
TruncateHead(history) ==
    IF Len(history) > HistoryLimit
    THEN SubSeq(history, 1, HistoryLimit)
    ELSE history

\* Lines 267-269: history.slice(-100) when longer than 100.
Truncate(history) ==
    IF Len(history) > HistoryLimit
    THEN SubSeq(history, Len(history) - HistoryLimit + 1, Len(history))
    ELSE history

\* Lines 261-264: the entry of this cycle.
HistoryEntry(t, rs) ==
    [timestamp |-> t,
     results   |-> [i \in 1..Len(rs) |->
                      [url |-> rs[i].url, status |-> rs[i].status]]]

\* Variant of the end of runChecks with a writer that merges: the file is
\* read again, and the entry and the alerts are added to what it holds.
FinishChecksMerged(m) ==
    /\ mpc[m] = "checking"
    /\ Len(frame[m].results) = Len(config[m].urls)
    /\ LET entry == HistoryEntry(now, frame[m].results)
           onDisk == LoadState(stateFile) IN
         /\ state' = [state EXCEPT
                        ![m].lastCheck = now,
                        ![m].alerts = @ @@ onDisk.alerts,
                        ![m].history = Truncate(Append(onDisk.history,
                                                       entry))]
         /\ cycles' = Append(cycles, entry)
    /\ stateFile' = <<state'[m]>>
    /\ mpc' = [mpc EXCEPT ![m] = "checked"]
    /\ UNCHANGED <<config, frame, configFile, apiKey, calls, included,
                   requests, console, now>>
    /\ UNCHANGED otherVars

\* Lines 260-273: after the loop, lastCheck, history, saveState, return.
FinishChecks(m) ==
    /\ mpc[m] = "checking"
    /\ Len(frame[m].results) = Len(config[m].urls)
    /\ LET entry == HistoryEntry(now, frame[m].results) IN
         /\ state' = [state EXCEPT
                        ![m].lastCheck = now,
                        ![m].history = Truncate(Append(@, entry))]
         /\ cycles' = Append(cycles, entry)
    /\ stateFile' = <<state'[m]>>
    /\ mpc' = [mpc EXCEPT ![m] = "checked"]
    /\ UNCHANGED <<config, frame, configFile, apiKey, calls, included,
                   requests, console, now>>
    /\ UNCHANGED otherVars

\* this.linear.isConfigured(): !!this.apiKey
IsConfigured == apiKey # Null /\ apiKey # ""

\* Faulty variant of the guards of sendAlerts: the team is not tested.
SendAlertsNoTeamGuard(m) ==
    /\ mpc[m] = "checked"
    /\ frame[m].newIssues # <<>>
    /\ mpc' = [mpc EXCEPT ![m] = "sending"]
    /\ frame' = [frame EXCEPT ![m].si = 1]
    /\ UNCHANGED <<console, config, state, configFile, stateFile, apiKey,
                   calls, included, requests, cycles, now>>
    /\ UNCHANGED otherVars

\* monitor() after runChecks, lines 333-341, and the guards of sendAlerts,
\* lines 277-287.
SendAlerts(m) ==
    /\ mpc[m] = "checked"
    /\ LET v == frame[m].verbose IN
       IF frame[m].newIssues = <<>>
       THEN /\ console' = Log(console, v, "monitor", "ok")
            /\ mpc' = [mpc EXCEPT ![m] = "idle"]
            /\ UNCHANGED frame
       ELSE LET out == Log(console, v, "monitor", "new-alerts") IN
            IF config[m].teamId = Null \/ config[m].teamId = ""
            THEN /\ console' = Log(out, v, "sendAlerts", "no-team")
                 /\ mpc' = [mpc EXCEPT ![m] = "idle"]
                 /\ UNCHANGED frame
            ELSE IF ~IsConfigured
            THEN /\ console' = Log(out, v, "sendAlerts", "no-linear")
                 /\ mpc' = [mpc EXCEPT ![m] = "idle"]
                 /\ UNCHANGED frame
            ELSE /\ console' = out
                 /\ mpc' = [mpc EXCEPT ![m] = "sending"]
                 /\ frame' = [frame EXCEPT ![m].si = 1]
    /\ UNCHANGED <<config, state, configFile, stateFile, apiKey, calls,
                   included, requests, cycles, now>>
    /\ UNCHANGED otherVars

\* What the tracker does with one issueCreate mutation: creates the issue,
\* answers success: false, or the query throws.
CreateOutcomes == {"created", "unsuccessful", "throws"}

\* The input of the mutation, lines 307-313.
IssueCreateInput(cfg, issue) ==
    [teamId |-> cfg.teamId, title |-> issue.title,
     description |-> issue.description, priority |-> issue.priority,
     assigneeId |-> cfg.assigneeId]

\* Faulty variant of the loop body: no try/catch around the query.
CreateIssueUncaught(m, outcome) ==
    /\ mpc[m] = "sending"
    /\ frame[m].si <= Len(frame[m].newIssues)
    /\ LET issue == frame[m].newIssues[frame[m].si] IN
         /\ requests' = Append(requests,
                                [by |-> "sendAlerts",
                                 input |-> IssueCreateInput(config[m], issue),
                                 outcome |-> outcome])
         /\ IF outcome = "created"
            THEN /\ frame' = [frame EXCEPT
                                ![m].createdIssues =
                                    Append(@, [title |-> issue.title]),
                                ![m].si = @ + 1]
                 /\ UNCHANGED mpc
            ELSE IF outcome = "unsuccessful"
            THEN /\ frame' = [frame EXCEPT ![m].si = @ + 1]
                 /\ UNCHANGED mpc
            ELSE /\ mpc' = [mpc EXCEPT ![m] = "crashed"]
                 /\ UNCHANGED frame
    /\ UNCHANGED <<console, config, state, configFile, stateFile, apiKey,
                   calls, included, cycles, now>>
    /\ UNCHANGED otherVars

\* One round of for (const issue of issues), lines 289-325.
CreateIssue(m, outcome) ==
    /\ mpc[m] = "sending"
    /\ frame[m].si <= Len(frame[m].newIssues)
    /\ LET issue == frame[m].newIssues[frame[m].si]
           v == frame[m].verbose IN
         /\ requests' = Append(requests,
                                [by |-> "sendAlerts",
                                 input |-> IssueCreateInput(config[m], issue),
                                 outcome |-> outcome])
         /\ IF outcome = "created"
            THEN /\ frame' = [frame EXCEPT
                                ![m].createdIssues =
                                    Append(@, [title |-> issue.title]),
                                ![m].si = @ + 1]
                 /\ console' = Log(console, v, "sendAlerts", "sent")
            ELSE IF outcome = "unsuccessful"
            THEN /\ frame' = [frame EXCEPT ![m].si = @ + 1]
                 /\ UNCHANGED console
            ELSE /\ frame' = [frame EXCEPT ![m].si = @ + 1]
                 /\ console' = Log(console, v, "sendAlerts", "error")
    /\ UNCHANGED <<mpc, config, state, configFile, stateFile, apiKey, calls,
                   included, cycles, now>>
    /\ UNCHANGED otherVars

\* return createdIssues; monitor returns { results, alerts: created }.
SendAlertsReturn(m) ==
    /\ mpc[m] = "sending"
    /\ frame[m].si > Len(frame[m].newIssues)
    /\ mpc' = [mpc EXCEPT ![m] = "idle"]
    /\ UNCHANGED <<config, state, frame, configFile, stateFile, apiKey,
                   calls, included, requests, console, cycles, now>>
    /\ UNCHANGED otherVars

\* runChecks called on its own: it has returned, and its caller lets ms
\* milliseconds pass before the next call.
Sleep(m, ms) ==
    /\ mpc[m] = "checked"
    /\ mpc' = [mpc EXCEPT ![m] = "idle"]
    /\ now' = now + ms
    /\ UNCHANGED <<config, state, frame, configFile, stateFile, apiKey,
                   calls, included, requests, console, cycles>>
    /\ UNCHANGED otherVars

----------------------------------------------------------------------------
(* Monitor specifications *)

\* The scan side at rest, the clock at a positive Date.now().
ScanAtRest ==
    /\ pc = "idle"
    /\ url = ""
    /\ only = NoOpt
    /\ skip = NoOpt
    /\ categories = <<>>
    /\ ci = 0
    /\ ti = 0
    /\ invoked = <<>>
    /\ logged = <<>>
    /\ results = <<>>
    /\ startTime = NoTime
    /\ endTime = NoTime
    /\ now = HourMs
    /\ renders = <<>>

\* A healthy answer, a 503 behind a certificate about to expire, a slow
\* 404, and a host that does not answer.
MonitorObservations ==
    {[http |-> [threw |-> FALSE, status |-> 200, responseTime |-> 100],
      ssl  |-> [threw |-> FALSE, cert |-> TRUE, remaining |-> 20 * DayMs]],
     [http |-> [threw |-> FALSE, status |-> 503, responseTime |-> 100],
      ssl  |-> [threw |-> FALSE, cert |-> TRUE,
                remaining |-> 10 * DayMs - HourMs]],
     [http |-> [threw |-> FALSE, status |-> 404, responseTime |-> 6000],
      ssl  |-> [threw |-> FALSE, cert |-> TRUE, remaining |-> 20 * DayMs]],
     [http |-> [threw |-> TRUE, status |-> 0, responseTime |-> 0],
      ssl  |-> [threw |-> TRUE, cert |-> FALSE, remaining |-> 0]]}

\* No configuration files yet, the tracker not set up.
InitMonitor ==
    /\ ScanAtRest
    /\ NoMonitor

\* One Monitor, started with monitor() (verbose left at its default),
\* while URLs are added and hours pass.
NextMonitor ==
    \/ NewMonitor(M1)
    \/ \E u \in MonitorUrls : AddUrl(M1, u)
    \/ Advance(2 * HourMs, MaxHours * HourMs)
    \/ RunChecks(M1, FALSE, MaxCycles)
    \/ \E obs \in MonitorObservations : CheckNextUrl(M1, obs)
    \/ FinishChecks(M1)
    \/ SendAlerts(M1)

SpecMonitor == InitMonitor /\ [][NextMonitor]_vars

\* A Monitor constructed from a configuration file that lists urls.
MonitorWith(urls) ==
    LET cfg == [DefaultConfig EXCEPT !.urls = urls] IN
    /\ config = [m \in Monitors |-> IF m = M1 THEN cfg ELSE DefaultConfig]
    /\ configFile = <<cfg>>
    /\ mpc = [m \in Monitors |-> IF m = M1 THEN "idle" ELSE "absent"]
    /\ state = [m \in Monitors |-> DefaultState]
    /\ frame = [m \in Monitors |-> EmptyFrame]
    /\ stateFile = <<>>
    /\ requests = <<>>
    /\ console = <<>>
    /\ cycles = <<>>
    /\ calls = <<>>
    /\ included = <<>>

InitHistory ==
    /\ ScanAtRest
    /\ apiKey = Null
    /\ \E urls \in {<<"https://a.example">>,
                    <<"https://a.example", "http://b.example">>,
                    <<"http://b.example", "https://a.example">>} :
         MonitorWith(urls)

\* The answer of a host that is down for maintenance the whole time.
MaintenanceObservation ==
    [http |-> [threw |-> FALSE, status |-> 503, responseTime |-> 100],
     ssl  |-> [threw |-> FALSE, cert |-> TRUE, remaining |-> 20 * DayMs]]

\* runChecks called once a minute, starting from an empty history.
NextHistory ==
    \/ RunChecks(M1, FALSE, MaxHistoryCycles)
    \/ CheckNextUrl(M1, MaintenanceObservation)
    \/ FinishChecks(M1)
    \/ Sleep(M1, HourMs \div 60)

SpecHistory == InitHistory /\ [][NextHistory]_vars

\* One URL of each kind in the configuration file.
InitCheckUrl ==
    /\ ScanAtRest
    /\ apiKey = Null
    /\ \E u \in MonitorUrls : MonitorWith(<<u>>)

\* runChecks on one URL, against every outcome of the two requests.
NextCheckUrl ==
    \/ RunChecks(M1, FALSE, MaxCheckCycles)
    \/ \E obs \in Observations : CheckNextUrl(M1, obs)
    \/ FinishChecks(M1)
    \/ Sleep(M1, HourMs \div 60)

SpecCheckUrl == InitCheckUrl /\ [][NextCheckUrl]_vars

----------------------------------------------------------------------------
(* sendToLinear, index.js *)

\* How the conversation with the tracker goes once an API key is there:
\* getTeams throws, the team of --team is not among the teams, the issue is
\* created, or createIssue throws.

\* sendToLinear(reporter, teamKey) on the reporter runTests returned.
SendToLinear(outcome) ==
    /\ pc = "done"
    /\ pc' = "sent"
    /\ IF ~IsConfigured
       THEN /\ console' = Log(console, TRUE, "sendToLinear", "no-linear")
            /\ UNCHANGED <<requests, renders>>
       ELSE IF outcome = "teams-throws"
       THEN /\ requests' = Append(requests, [by |-> "sendToLinear",
                                             input |-> "teams",
                                             outcome |-> "throws"])
            /\ console' = Log(console, TRUE, "sendToLinear", "error")
            /\ UNCHANGED renders
       ELSE IF outcome = "team-not-found"
       THEN /\ requests' = Append(requests, [by |-> "sendToLinear",
                                             input |-> "teams",
                                             outcome |-> "ok"])
            /\ console' = Log(console, TRUE, "sendToLinear", "no-team")
            /\ UNCHANGED renders
       ELSE /\ renders' = Append(renders,
                                 LinearReport(url, startTime, endTime,
                                              results, now))
            /\ requests' =
                 requests \o
                 <<[by |-> "sendToLinear", input |-> "teams",
                    outcome |-> "ok"],
                   [by |-> "sendToLinear", input |-> "issueCreate",
                    outcome |-> IF outcome = "created" THEN "created"
                                ELSE "throws"]>>
            /\ console' = Log(console, TRUE, "sendToLinear",
                              IF outcome = "created" THEN "sent" ELSE "error")
    /\ UNCHANGED <<only, skip, categories, ci, ti, invoked, logged>>
    /\ UNCHANGED <<url, results, startTime, endTime, now>>
    /\ UNCHANGED <<mpc, config, state, frame, configFile, stateFile, apiKey,
                   calls, included, cycles>>

\* The reporter as runTests set it up, a Monitor with a configuration
\* file, and the tracker's API key present or not.
InitTracker ==
    /\ pc = "loop"
    /\ url = "https://down.example"
    /\ only = NoOpt
    /\ skip = NoOpt
    /\ categories = <<>>
    /\ ci = 0
    /\ ti = 0
    /\ invoked = <<>>
    /\ logged = <<>>
    /\ results = <<>>
    /\ startTime = HourMs
    /\ endTime = NoTime
    /\ now = HourMs
    /\ renders = <<>>
    /\ apiKey \in {Null, "lin_api_key"}
    /\ MonitorWith(<<"https://a.example">>)

\* The two ways to the tracker: the scan's --send-linear and the
\* Monitor's alerts.
NextTracker ==
    \/ EndTimer
    \/ \E outcome \in {"teams-throws", "team-not-found", "created",
                        "create-throws"} : SendToLinear(outcome)
    \/ SetTeam(M1, "TEAM")
    \/ \E v \in BOOLEAN : RunChecks(M1, v, MaxTrackerCycles)
    \/ \E obs \in MonitorObservations : CheckNextUrl(M1, obs)
    \/ FinishChecks(M1)
    \/ SendAlerts(M1)
    \/ \E outcome \in CreateOutcomes : CreateIssue(M1, outcome)
    \/ SendAlertsReturn(M1)

SpecTracker == InitTracker /\ [][NextTracker]_vars

----------------------------------------------------------------------------
(* Properties of the scan (Spec) *)

\* The probes of a category list in category-then-probe order, each with
\* the index of its category; an inherited property contributes none.
RECURSIVE ProbesFrom(_, _)
ProbesFrom(cats, k) ==
    IF k > Len(cats) THEN <<>>
    ELSE (IF HasTests(cats[k])
          THEN [j \in 1..Len(CategoryTests(cats[k])) |->
                   [cat |-> k, fn |-> CategoryTests(cats[k])[j]]]
          ELSE <<>>) \o ProbesFrom(cats, k + 1)

RECURSIVE Findings(_)
Findings(rs) ==
    IF rs = <<>> THEN <<>> ELSE Head(rs).tests \o Findings(Tail(rs))

RECURSIVE ReturnedFindings(_)
ReturnedFindings(inv) ==
    IF inv = <<>> THEN <<>>
    ELSE (IF Head(inv).threw THEN <<>>
          ELSE ProbeResults(Head(inv).fn, url).tests)
         \o ReturnedFindings(Tail(inv))

\* C1: a probe that throws is logged and never aborts the scan: the log
\* holds exactly the probes that threw, in order; the probes invoked so far
\* are always the first probes of the selected categories in
\* category-then-probe order, whatever threw before; a scan that ended has
\* invoked every one of them; and an abort never comes from a probe (the
\* category in hand is then one without a tests array).
C1_ThrowingProbeIsolated ==
    LET expected == ProbesFrom(categories, 1)
        threwIdx == {i \in 1..Len(invoked) : invoked[i].threw}
    IN  /\ Len(logged) = Cardinality(threwIdx)
        /\ \A k \in 1..Len(logged) :
              \E i \in threwIdx :
                 /\ Cardinality({j \in threwIdx : j <= i}) = k
                 /\ logged[k] = [cat |-> invoked[i].cat, fn |-> invoked[i].fn]
        /\ Len(invoked) <= Len(expected)
        /\ \A i \in 1..Len(invoked) :
              /\ invoked[i].cat = expected[i].cat
              /\ invoked[i].fn = expected[i].fn
        /\ pc = "done" => Len(invoked) = Len(expected)
        /\ pc = "crashed" => ~HasTests(categories[ci])

\* A finished scan in which a probe threw and a later probe, of the same
\* and of a later category, was still invoked.
C1_Witness ==
    /\ pc = "done"
    /\ \E i, j, k \in 1..Len(invoked) :
          /\ invoked[i].threw
          /\ i < j /\ invoked[j].cat = invoked[i].cat
          /\ i < k /\ invoked[k].cat > invoked[i].cat

\* C2: the findings of the report are, at every moment and when runTests
\* returns, the concatenation in invocation (category-then-probe) order of
\* the outputs of the probes that returned; a probe that threw adds nothing.
C2_FindingsAreReturnedOutputs ==
    /\ pc \in {"loop", "probe", "done", "crashed"} =>
          Findings(results) = ReturnedFindings(invoked)
    /\ pc = "done" =>
          /\ Len(results) = Cardinality({i \in 1..Len(invoked) :
                                            ~invoked[i].threw})
          /\ [i \in 1..Len(invoked) |-> [cat |-> invoked[i].cat,
                                         fn  |-> invoked[i].fn]]
                = ProbesFrom(categories, 1)

\* A finished scan with a throwing probe between two returning ones, the
\* same category having run twice.
C2_Witness ==
    /\ pc = "done"
    /\ Len(results) >= 2
    /\ \E i, j, k \in 1..Len(invoked) :
          /\ i < j /\ j < k
          /\ ~invoked[i].threw /\ invoked[j].threw /\ ~invoked[k].threw
    /\ \E i, j \in 1..Len(results) : i < j /\ results[i] = results[j]

\* C3: the scan never ends in an uncaught error, whatever --only and --skip
\* name.
C3_ScanNeverCrashes == pc # "crashed"

\* C4: with --only (and no --skip) the list handed to runTests is the
\* registry restricted to the names of the filter, in registry order, each
\* once, other names ignored.
C4_OnlyIsRegistryOrderedIntersection ==
    (pc # "idle" /\ only # NoOpt /\ skip = NoOpt) =>
        categories = SelectSeq(RegistryKeys, LAMBDA c : Includes(only, c))

\* C5: with --skip no category named in the filter is in the list handed to
\* runTests nor run; every other category selected before the subtraction
\* stays, as often as it was selected; the remaining categories keep their
\* relative order; and a finished scan has run all of them.
C5_SkipSubtracts ==
    (pc # "idle" /\ skip # NoOpt) =>
        LET selected == OnlyFilter(only)
            kept == {i \in 1..Len(selected) : ~Includes(skip, selected[i])}
        IN  /\ \A i \in 1..Len(categories) : ~Includes(skip, categories[i])
            /\ \A i \in 1..Len(invoked) :
                  ~Includes(skip, categories[invoked[i].cat])
            /\ Len(categories) = Cardinality(kept)
            /\ \A i \in kept :
                  categories[Cardinality({j \in kept : j <= i})] = selected[i]
            /\ pc = "done" =>
                  \A k \in 1..Len(categories) :
                     HasTests(categories[k]) =>
                        \E i \in 1..Len(invoked) : invoked[i].cat = k

\* A finished scan whose --skip names a category that --only names too,
\* another selected category having run.
C5_Witness ==
    /\ pc = "done"
    /\ skip # NoOpt /\ only # NoOpt
    /\ \E i \in 1..Len(only) : Includes(skip, only[i])
    /\ invoked # <<>>

----------------------------------------------------------------------------
(* Properties of the report (SpecReporter, SpecClock, SpecUntyped) *)

\* Independent counts over the findings of a report.
CountSeverity(fs, sev) ==
    Cardinality({i \in 1..Len(fs) : fs[i].severity = sev})

\* C6: passed is the number of findings of the whole report whose status
\* is pass, whatever their severity, for every accumulated state and in
\* every rendered summary.
C6_PassedCountsPassStatus ==
    LET fs == Findings(results)
        n == Cardinality({i \in 1..Len(fs) : fs[i].status = "pass"})
    IN  /\ GetSummary(results).passed = n
        /\ \A r \in 1..Len(renders) : renders[r].summary.passed = n

\* A rendered report of two results holding a passing finding, a finding
\* of severity info that did not pass and a failing one.
C6_Witness ==
    /\ renders # <<>>
    /\ Len(results) = 2
    /\ \E i, j, k \in 1..Len(Findings(results)) :
          /\ Findings(results)[i].status = "pass"
          /\ Findings(results)[j].status # "pass"
          /\ Findings(results)[j].severity = "info"
          /\ Findings(results)[k].status = "fail"

\* C7: each of the four counts is the number of findings of its severity,
\* findings of severity info are in none, and the four add up to the
\* number of findings whose severity is not info.
C7_SeverityCountsPartition ==
    LET fs == Findings(results)
        sm == GetSummary(results)
    IN  /\ sm.critical = CountSeverity(fs, "critical")
        /\ sm.high = CountSeverity(fs, "high")
        /\ sm.medium = CountSeverity(fs, "medium")
        /\ sm.low = CountSeverity(fs, "low")
        /\ sm.critical + sm.high + sm.medium + sm.low
              = Len(fs) - CountSeverity(fs, "info")
        /\ \A r \in 1..Len(renders) :
              /\ renders[r].summary.critical = sm.critical
              /\ renders[r].summary.high = sm.high
              /\ renders[r].summary.medium = sm.medium
              /\ renders[r].summary.low = sm.low

\* A rendered report with findings of severity info beside findings of
\* two other severities.
C7_Witness ==
    /\ renders # <<>>
    /\ \E i, j, k \in 1..Len(Findings(results)) :
          /\ Findings(results)[i].severity = "info"
          /\ Findings(results)[j].severity = "low"
          /\ Findings(results)[k].severity = "critical"

\* The place of a severity in the order critical, high, medium, low, info.
Rank(sev) ==
    CASE sev = "critical" -> 1
      [] sev = "high" -> 2
      [] sev = "medium" -> 3
      [] sev = "low" -> 4
      [] sev = "info" -> 5

\* C8: the recommendation list holds exactly the findings with a
\* recommendation, each once; it is ordered critical, high, medium, low,
\* info; and recommendations of equal severity are in the order in which
\* their findings were added.
C8_RecommendationsSortedStable ==
    LET src == SelectSeq(Findings(results),
                         LAMBDA f : f.recommendation # Null)
        R == Recommendations(results)
        at(name) == CHOOSE i \in 1..Len(src) : src[i].name = name
    IN  /\ Len(R) = Len(src)
        /\ \A i \in 1..Len(src) :
              Cardinality({k \in 1..Len(R) :
                  R[k] = [severity |-> src[i].severity,
                          name |-> src[i].name,
                          recommendation |-> src[i].recommendation]}) = 1
        /\ \A k, l \in 1..Len(R) :
              k < l => /\ Rank(R[k].severity) <= Rank(R[l].severity)
                       /\ R[k].severity = R[l].severity =>
                             at(R[k].name) < at(R[l].name)
        /\ \A r \in 1..Len(renders) : renders[r].recommendations = R

\* A rendered report with three recommendations, two of one severity and,
\* added before them, one that is less severe.
C8_Witness ==
    /\ renders # <<>>
    /\ LET src == SelectSeq(Findings(results),
                            LAMBDA f : f.recommendation # Null)
       IN  /\ Len(src) = 3
           /\ src[2].severity = src[3].severity
           /\ Rank(src[1].severity) > Rank(src[2].severity)
           /\ renders[1].recommendations[3].name = src[1].name

C10_RenderTwiceIdentical ==
    \A i, j \in 1..Len(renders) : renders[i] = renders[j]

\* C11: rendering leaves the report state unchanged: whenever a step
\* produces a markdown or a console rendering, the url, the two timestamps
\* and the results with their findings are the same after it as before.
C11_RenderLeavesReportUnchanged ==
    [][(renders' # renders \/ console' # console)
         => /\ url' = url
            /\ startTime' = startTime
            /\ endTime' = endTime
            /\ results' = results]_vars

\* Both renderers have run on a report whose recommendations the markdown
\* renderer had to reorder.
C11_Witness ==
    /\ Len(renders) > 0
    /\ Len(console) > 0
    /\ CollectRecommendations(results) # Recommendations(results)

----------------------------------------------------------------------------
(* Properties of the Monitor *)

\* The issues of newIssues that carry the dedup key k.
InBatch(batch, k) ==
    \E j \in 1..Len(batch) : AlertKey(batch[j].url, batch[j]) = k

\* C12: when runChecks has checked a URL at time now, each Issue of the
\* result, with dedup key k, is added to the new-issue batch if and only if
\* alerts[k] was absent or now - alerts[k] > 4 hours, and when it is added
\* alerts[k] becomes now.
C12_DedupCooldown ==
    [][\A m \in Monitors :
         Len(frame'[m].results) = Len(frame[m].results) + 1 =>
           LET r == frame'[m].results[Len(frame'[m].results)]
               added == SubSeq(frame'[m].newIssues,
                               Len(frame[m].newIssues) + 1,
                               Len(frame'[m].newIssues)) IN
           \A i \in 1..Len(r.issues) :
             LET k == AlertKey(r.url, r.issues[i])
                 fresh == \/ k \notin DOMAIN state[m].alerts
                          \/ now - state[m].alerts[k] > CooldownMs IN
             /\ InBatch(added, k) <=> fresh
             /\ InBatch(added, k) =>
                  /\ k \in DOMAIN state'[m].alerts
                  /\ state'[m].alerts[k] = now]_vars

\* A cycle in which one Issue is suppressed exactly 4 hours after its
\* last dispatch while another one is put in the batch.
C12_Witness ==
    /\ mpc[M1] = "checking"
    /\ frame[M1].newIssues # <<>>
    /\ \E n \in 1..Len(frame[M1].results) :
         LET r == frame[M1].results[n] IN
         \E i \in 1..Len(r.issues) :
           LET k == AlertKey(r.url, r.issues[i]) IN
           /\ ~InBatch(frame[M1].newIssues, k)
           /\ state[M1].alerts[k] = now - CooldownMs

\* C13: after n completed cycles from an empty history, state.history has
\* length min(n, 100) and is the min(n, 100) most recent cycles, oldest
\* first; after 150 cycles its length is 100.
C13_HistoryKeepsLast100 ==
    LET h == state[M1].history
        n == Len(cycles)
        k == IF n < 100 THEN n ELSE 100 IN
    /\ Len(h) = k
    /\ h = SubSeq(cycles, n - k + 1, n)
    /\ \A i, j \in 1..Len(h) : i < j => h[i].timestamp < h[j].timestamp
    /\ n = 150 => Len(h) = 100

\* 150 cycles have completed.
C13_Witness ==
    /\ Len(cycles) = 150
    /\ Len(state[M1].history) = 100
    /\ state[M1].history[1] = cycles[51]

----------------------------------------------------------------------------
(* Properties of checkUrl (SpecCheckUrl) *)

\* The results of the checkUrl calls of the cycle in progress, each with
\* what the network showed that call.
Checked == 1..Len(frame[M1].results)

ResultOf(n) == frame[M1].results[n]

ObservedBy(n) == frame[M1].observed[n]

\* The number of issues of is that satisfy type = ty.
CountType(is, ty) == Cardinality({i \in 1..Len(is) : is[i].type = ty})

\* The number of issues of is whose title reads text.
CountText(is, text) ==
    Cardinality({i \in 1..Len(is) : is[i].title.text = text})

\* The HTTP check of call n received a status of 500 or more.
ServerError(n) ==
    /\ config[M1].checks.httpStatus
    /\ ~ObservedBy(n).http.threw
    /\ ObservedBy(n).http.status >= 500

\* The certificate check of call n ran and read a certificate.
CertificateRead(n) ==
    /\ config[M1].checks.sslExpiry
    /\ StartsWithHttps(ResultOf(n).url)
    /\ ~ObservedBy(n).ssl.threw
    /\ ObservedBy(n).ssl.cert

ExpiresWithinThreshold(n) ==
    /\ CertificateRead(n)
    /\ ObservedBy(n).ssl.remaining >= 0
    /\ DaysUntilExpiry(ObservedBy(n)) < config[M1].thresholds.sslExpiryDays

\* C15 as stated: for such a certificate checkUrl emits exactly one Issue
\* of type warning, and that Issue references d.
C15_ExpiringCertOneWarning ==
    \A n \in Checked :
      ExpiresWithinThreshold(n) =>
        LET is == ResultOf(n).issues IN
        /\ CountType(is, "warning") = 1
        /\ \A i \in 1..Len(is) :
             is[i].type = "warning" =>
               is[i].description.value = DaysUntilExpiry(ObservedBy(n))

\* C15 amended: for such a certificate checkUrl emits exactly one
\* certificate Issue, of type warning and referencing d; the only other
\* Issue of type warning of the call is the one of a slow response.
C15_ExpiringCertOneCertWarning ==
    \A n \in Checked :
      ExpiresWithinThreshold(n) =>
        LET is == ResultOf(n).issues IN
        /\ CountText(is, "SSL por expirar") = 1
        /\ CountText(is, "CERTIFICADO SSL EXPIRADO") = 0
        /\ \A i \in 1..Len(is) :
             is[i].title.text = "SSL por expirar" =>
               /\ is[i].type = "warning"
               /\ is[i].description.value = DaysUntilExpiry(ObservedBy(n))
        /\ \A i \in 1..Len(is) :
             is[i].type = "warning" =>
               is[i].title.text \in {"SSL por expirar", "Respuesta lenta"}

\* A certificate with 10 days left (9 days and 23 hours) behind a slow
\* response.
C15_Witness ==
    \E n \in Checked :
      /\ ExpiresWithinThreshold(n)
      /\ DaysUntilExpiry(ObservedBy(n)) = 10
      /\ ObservedBy(n).http.responseTime > config[M1].thresholds.responseTime
      /\ CountType(ResultOf(n).issues, "warning") = 2

\* Some issue of is has type ty and priority pr.
Emits(is, ty, pr) ==
    \E i \in 1..Len(is) : is[i].type = ty /\ is[i].priority = pr

\* What call n observed, in the terms of the classification table.
ConnectionFailed(n) ==
    config[M1].checks.httpStatus /\ HttpThrew(ResultOf(n).url, ObservedBy(n))

ClientError(n) ==
    /\ config[M1].checks.httpStatus
    /\ ~ObservedBy(n).http.threw
    /\ ObservedBy(n).http.status >= 400
    /\ ObservedBy(n).http.status < 500

SlowResponse(n) ==
    /\ config[M1].checks.httpStatus
    /\ ~ObservedBy(n).http.threw
    /\ ObservedBy(n).http.responseTime > config[M1].thresholds.responseTime

\* valid_to lies in the past.
CertificateExpired(n) ==
    CertificateRead(n) /\ ObservedBy(n).ssl.remaining < 0

\* C16: checkUrl classifies by the fixed table: status >= 500, connection
\* failure and expired certificate give critical / 1, status in [400, 500)
\* gives error / 2, a certificate expiring within the threshold gives
\* warning / 2, a response slower than the threshold gives warning / 3, and
\* no Issue has another (type, priority) pair or lacks its trigger.
C16_ClassificationTable ==
    \A n \in Checked :
      LET is == ResultOf(n).issues IN
      /\ ServerError(n) \/ ConnectionFailed(n) \/ CertificateExpired(n)
           => Emits(is, "critical", 1)
      /\ CertificateExpired(n) =>
           \E i \in 1..Len(is) :
             /\ is[i].title.text = "CERTIFICADO SSL EXPIRADO"
             /\ is[i].type = "critical"
             /\ is[i].priority = 1
      /\ ClientError(n) => Emits(is, "error", 2)
      /\ ExpiresWithinThreshold(n) => Emits(is, "warning", 2)
      /\ SlowResponse(n) => Emits(is, "warning", 3)
      /\ \A i \in 1..Len(is) :
           \/ /\ is[i].type = "critical" /\ is[i].priority = 1
              /\ \/ ServerError(n)
                 \/ ConnectionFailed(n)
                 \/ CertificateExpired(n)
           \/ is[i].type = "error" /\ is[i].priority = 2 /\ ClientError(n)
           \/ /\ is[i].type = "warning" /\ is[i].priority = 2
              /\ ExpiresWithinThreshold(n)
           \/ is[i].type = "warning" /\ is[i].priority = 3 /\ SlowResponse(n)

\* C17: the status checkUrl returns is critical if some emitted Issue has
\* type critical, otherwise warning if some Issue was emitted, otherwise
\* ok, and it is always one of the three.
C17_OverallStatus ==
    \A n \in Checked :
      /\ ResultOf(n).status =
            (IF CountType(ResultOf(n).issues, "critical") >= 1
             THEN "critical"
             ELSE IF Len(ResultOf(n).issues) >= 1 THEN "warning"
             ELSE "ok")
      /\ ResultOf(n).status \in {"critical", "warning", "ok"}

\* A call that emitted a critical Issue after a warning: a slow 200 from a
\* host whose certificate has expired.
C17_Witness ==
    \E n \in Checked :
      LET is == ResultOf(n).issues IN
      /\ Len(is) = 2
      /\ is[1].type = "warning"
      /\ is[2].type = "critical"
      /\ ResultOf(n).status = "critical"

----------------------------------------------------------------------------
(* Properties of a monitoring cycle and of the dispatch *)

\* C18: a cycle always completes and persists MonitorState, whatever the
\* checks do and whatever strings are configured: runChecks never dies,
\* and once it has returned every configured URL has a result, the history
\* ends with the entry of this cycle and the state file holds the state.
C18_CycleAlwaysCompletes ==
    /\ mpc[M1] # "crashed"
    /\ mpc[M1] = "checked" =>
         /\ Len(frame[M1].results) = Len(config[M1].urls)
         /\ \A n \in Checked : ResultOf(n).url = config[M1].urls[n]
         /\ state[M1].history # <<>>
         /\ state[M1].history[Len(state[M1].history)] = cycles[Len(cycles)]
         /\ stateFile = <<state[M1]>>

\* The requests sendAlerts has made in the call in progress (or the last
\* one), in order.
CallRequests ==
    LET all == SelectSeq(requests, LAMBDA r : r.by = "sendAlerts")
        k   == frame[M1].si - 1 IN
    SubSeq(all, Len(all) - k + 1, Len(all))

\* C19: with team and API key configured, a failed creation is caught:
\* sendAlerts asks the tracker once for every Issue of the batch, in batch
\* order, returns exactly the issues whose creation succeeded, and the
\* alert timestamps runChecks wrote for the batch stay as written, in
\* memory and in the state file.
C19_DispatchFailureIsolated ==
    frame[M1].si >= 1 =>
      LET f  == frame[M1]
          ok == SelectSeq(CallRequests, LAMBDA r : r.outcome = "created") IN
      /\ mpc[M1] \in {"sending", "idle"}
      /\ Len(CallRequests) = f.si - 1
      /\ \A j \in 1..Len(CallRequests) :
           /\ CallRequests[j].input.title = f.newIssues[j].title
           /\ CallRequests[j].input.priority = f.newIssues[j].priority
      /\ f.createdIssues = [j \in 1..Len(ok) |-> [title |-> ok[j].input.title]]
      /\ mpc[M1] = "idle" => f.si = Len(f.newIssues) + 1
      /\ \A j \in 1..Len(f.newIssues) :
           LET k == AlertKey(f.newIssues[j].url, f.newIssues[j]) IN
           /\ state[M1].alerts[k] = f.newIssues[j].description.tiempo
           /\ stateFile[1].alerts[k] = f.newIssues[j].description.tiempo

\* sendAlerts has returned from a batch of two whose first creation threw
\* and whose second succeeded.
C19_Witness ==
    /\ mpc[M1] = "idle"
    /\ frame[M1].si = 3
    /\ CallRequests[1].outcome = "throws"
    /\ CallRequests[2].outcome = "created"
    /\ Len(frame[M1].createdIssues) = 1

\* The console shows a new line written by who.
Warned(who) ==
    \E i \in (Len(console) + 1)..Len(console') : console'[i].who = who

\* C20: without a team id or an API key sending is a no-op with a warning
\* to the user: sendAlerts, given a batch, and sendToLinear make no tracker
\* request, print a warning and return.
C20_UnconfiguredWarnsAndReturns ==
    [][/\ \A m \in Monitors :
            (/\ mpc[m] = "checked"
             /\ mpc'[m] # "checked"
             /\ frame[m].newIssues # <<>>
             /\ (config[m].teamId = Null \/ config[m].teamId = ""
                   \/ ~IsConfigured))
            => /\ requests' = requests
               /\ mpc'[m] = "idle"
               /\ frame'[m].createdIssues = <<>>
               /\ Warned("sendAlerts")
       /\ (pc = "done" /\ pc' = "sent" /\ ~IsConfigured)
            => /\ requests' = requests
               /\ Warned("sendToLinear")]_vars

----------------------------------------------------------------------------
(* Probe-local failures *)

\* C21: a failure a probe catches locally is surfaced as a finding with
\* status fail and severity high or critical, never with another status or
\* a lower severity.
\* Every finding a scan of the unreachable target has collected is the
\* catch finding of the probe that pushed it.
C21_CaughtFailureIsFailHigh ==
    url = "https://down.example"
    => \A i \in 1..Len(Findings(results)) :
          /\ Findings(results)[i].status = "fail"
          /\ Findings(results)[i].severity \in {"high", "critical"}

----------------------------------------------------------------------------
(* The probes on what they observe: testHttpResponse, testSSL and          *)
(* testSecurityHeaders, with every finding they push.                      *)

\* A header or property is truthy: present and not the empty string.
Truthy(v) == v \notin {Undefined, ""}

Finding(name, status, severity, recommendation) ==
    [name |-> name, status |-> status, severity |-> severity,
     recommendation |-> recommendation]

\* results.tests.push(...) under if (cond).
PushIf(cond, finding) == IF cond THEN <<finding>> ELSE <<>>

\* What axios.get shows testHttpResponse: a rejection, or a status, the
\* elapsed milliseconds and the headers it reads.
HttpResponses ==
    [threw : {TRUE}, status : {0}, responseTime : {0},
     contentType : {Undefined}, server : {Undefined},
     poweredBy : {Undefined}]
    \cup [threw : {FALSE}, status : {200, 399, 400},
          responseTime : {2999, 3000},
          contentType : {Undefined, "text/html; charset=utf-8",
                         "application/json"},
          server : {Undefined, "nginx/1.18"},
          poweredBy : {Undefined, "Express"}]

\* testHttpResponse(url, logger).tests; contentType.includes('text/html')
\* is true of the one HTML content type drawn.
HttpResponseTests(u, r) ==
    IF r.threw \/ ~UrlParses(u)
    THEN <<Finding("Conexion", CatchFinding.testHttpResponse.status,
                   CatchFinding.testHttpResponse.severity, Null)>>
    ELSE LET statusOk == r.status >= 200 /\ r.status < 400
             timeOk == r.responseTime < 3000
             isHtml == r.contentType = "text/html; charset=utf-8" IN
         <<Finding("Codigo de Estado",
                   IF statusOk THEN "pass" ELSE "fail",
                   IF statusOk THEN "info" ELSE "high",
                   Null),
           Finding("Tiempo de Respuesta",
                   IF timeOk THEN "pass" ELSE "warning",
                   IF timeOk THEN "info" ELSE "medium",
                   Null),
           Finding("Content-Type",
                   IF isHtml THEN "pass" ELSE "info",
                   "info", Null)>>
         \o PushIf(Truthy(r.server),
                   Finding("Header Server Expuesto", "warning", "low", "rec"))
         \o PushIf(Truthy(r.poweredBy),
                   Finding("X-Powered-By Expuesto", "warning", "low", "rec"))

\* What the TLS handshake shows testSSL: a rejection, or the socket's
\* authorized flag, the certificate (issuer, whether it has a valid_to and
\* valid_to - now in hours, subjectaltname), the protocol and the cipher
\* name.
Handshakes ==
    [threw : {TRUE}, authorized : {FALSE}, issuer : {FALSE},
     valid_to : {FALSE}, remainingHours : {0}, protocol : {Undefined},
     cipher : {Undefined}, san : {FALSE}]
    \cup [threw : {FALSE}, authorized : BOOLEAN, issuer : BOOLEAN,
          valid_to : {FALSE}, remainingHours : {0},
          protocol : {Undefined, "TLSv1.3", "TLSv1.1"},
          cipher : {Undefined, "TLS_AES_256_GCM_SHA384", "RC4-SHA"},
          san : BOOLEAN]
    \cup [threw : {FALSE}, authorized : BOOLEAN, issuer : BOOLEAN,
          valid_to : {TRUE},
          remainingHours : {-30, -12, 29 * 24, 30 * 24, 89 * 24,
                            89 * 24 + 1},
          protocol : {Undefined, "TLSv1.3", "TLSv1.1"},
          cipher : {Undefined, "TLS_AES_256_GCM_SHA384", "RC4-SHA"},
          san : BOOLEAN]

\* testSSL(url, logger).tests. For the expiry finding, let status = 'pass';
\* let severity = 'info'; then both are reassigned together; remainingHours
\* in (-24, 0] gives -0, and -0 < 0 is false. Of the ciphers drawn only
\* RC4-SHA includes a name of weakCiphers.
SSLTests(u, h) ==
    IF ~UrlParses(u) THEN
        <<Finding("Analisis SSL", CatchFinding.testSSL.status,
                  CatchFinding.testSSL.severity, Null)>>
    ELSE IF ~StartsWithHttps(u) THEN
        <<Finding("HTTPS", "fail", "critical", "rec")>>
    ELSE IF h.threw THEN
        <<Finding("Analisis SSL", CatchFinding.testSSL.status,
                  CatchFinding.testSSL.severity, Null)>>
    ELSE
        <<Finding("Certificado Valido",
                  IF h.authorized THEN "pass" ELSE "fail",
                  IF h.authorized THEN "info" ELSE "critical",
                  IF h.authorized THEN Null ELSE "rec")>>
        \o PushIf(h.issuer,
                  Finding("Emisor del Certificado", "info", "info", Null))
        \o PushIf(h.valid_to,
                  LET daysUntilExpiry == Ceil(h.remainingHours, 24) IN
                  Finding("Expiracion del Certificado",
                          IF daysUntilExpiry < 0 THEN "fail"
                          ELSE IF daysUntilExpiry < 30 THEN "warning"
                          ELSE IF daysUntilExpiry < 90 THEN "warning"
                          ELSE "pass",
                          IF daysUntilExpiry < 0 THEN "critical"
                          ELSE IF daysUntilExpiry < 30 THEN "high"
                          ELSE IF daysUntilExpiry < 90 THEN "medium"
                          ELSE "info",
                          IF daysUntilExpiry < 30 THEN "rec" ELSE Null))
        \o PushIf(Truthy(h.protocol),
                  LET isSecure == h.protocol \in {"TLSv1.2", "TLSv1.3"} IN
                  Finding("Version de Protocolo",
                          IF isSecure THEN "pass" ELSE "warning",
                          IF isSecure THEN "info" ELSE "medium",
                          IF isSecure THEN Null ELSE "rec"))
        \o PushIf(Truthy(h.cipher),
                  LET isWeak == h.cipher = "RC4-SHA" IN
                  Finding("Suite de Cifrado",
                          IF isWeak THEN "warning" ELSE "pass",
                          IF isWeak THEN "medium" ELSE "info",
                          IF isWeak THEN "rec" ELSE Null))
        \o PushIf(h.san,
                  Finding("Dominios Cubiertos (SAN)", "info", "info", Null))

\* The response headers testSecurityHeaders reads, or a rejection.
HeaderSets ==
    [threw : {TRUE}, csp : {Undefined}, xfo : {Undefined},
     xcto : {Undefined}, hsts : {Undefined}, referrer : {Undefined},
     permissions : {Undefined}]
    \cup [threw : {FALSE},
          csp : {Undefined, "default-src 'self'"},
          xfo : {Undefined, "DENY"},
          xcto : {Undefined, "nosniff", "sniff"},
          hsts : {Undefined, "max-age=31536000",
                  "max-age=31536000; includeSubDomains; preload"},
          referrer : {Undefined, "no-referrer"},
          permissions : {Undefined, "camera=()"}]

\* Faulty variant of the Referrer-Policy finding: severity low whether or
\* not the header is set.
ReferrerFindingAlwaysLow(referrer) ==
    Finding("Referrer-Policy",
            IF Truthy(referrer) THEN "pass" ELSE "info",
            "low",
            IF Truthy(referrer) THEN Null ELSE "rec")

ReferrerFinding(referrer) ==
    Finding("Referrer-Policy",
            IF Truthy(referrer) THEN "pass" ELSE "info",
            IF Truthy(referrer) THEN "info" ELSE "low",
            IF Truthy(referrer) THEN Null ELSE "rec")

\* testSecurityHeaders(url, logger).tests
SecurityHeadersTests(u, hd) ==
    IF hd.threw \/ ~UrlParses(u)
    THEN <<Finding("Analisis de Headers",
                   CatchFinding.testSecurityHeaders.status,
                   CatchFinding.testSecurityHeaders.severity, Null)>>
    ELSE
        <<Finding("Content-Security-Policy (CSP)",
                  IF Truthy(hd.csp) THEN "pass" ELSE "fail",
                  IF Truthy(hd.csp) THEN "info" ELSE "high",
                  IF Truthy(hd.csp) THEN Null ELSE "rec"),
          Finding("X-Frame-Options",
                  IF Truthy(hd.xfo) THEN "pass" ELSE "warning",
                  IF Truthy(hd.xfo) THEN "info" ELSE "medium",
                  IF Truthy(hd.xfo) THEN Null ELSE "rec"),
          Finding("X-Content-Type-Options",
                  IF hd.xcto = "nosniff" THEN "pass" ELSE "warning",
                  IF hd.xcto = "nosniff" THEN "info" ELSE "low",
                  IF hd.xcto = "nosniff" THEN Null ELSE "rec")>>
        \o PushIf(StartsWithHttps(u),
                  Finding("Strict-Transport-Security (HSTS)",
                          IF Truthy(hd.hsts) THEN "pass" ELSE "warning",
                          IF Truthy(hd.hsts) THEN "info" ELSE "medium",
                          IF Truthy(hd.hsts) THEN Null ELSE "rec"))
        \o PushIf(StartsWithHttps(u) /\ Truthy(hd.hsts)
                    /\ hd.hsts #
                         "max-age=31536000; includeSubDomains; preload",
                  Finding("HSTS Configuracion Completa", "info", "info",
                          Null))
        \o <<Finding("X-XSS-Protection", "info", "info", Null),
             ReferrerFinding(hd.referrer),
             Finding("Permissions-Policy",
                     IF Truthy(hd.permissions) THEN "pass" ELSE "info",
                     "info",
                     IF Truthy(hd.permissions) THEN Null ELSE "rec"),
             Finding("Cache-Control", "info", "info", Null)>>

\* const results = await testFn(url, logger); reporter.addResults(results)
ProbeAdds(name, tests) ==
    /\ pc = "loop"
    /\ Len(results) < MaxProbeRuns
    /\ results' = AddResultsTo(results, [name |-> name, tests |-> tests])
    /\ UNCHANGED scanVars
    /\ UNCHANGED <<url, startTime, endTime, now, renders>>
    /\ UNCHANGED monVars

InitProbes ==
    /\ pc = "loop"
    /\ url \in MonitorUrls
    /\ only = NoOpt
    /\ skip = NoOpt
    /\ categories = <<>>
    /\ ci = 0
    /\ ti = 0
    /\ invoked = <<>>
    /\ logged = <<>>
    /\ results = <<>>
    /\ startTime = 0
    /\ endTime = NoTime
    /\ now = 0
    /\ renders = <<>>
    /\ NoMonitor

NextProbes ==
    \/ \E r \in HttpResponses :
          ProbeAdds(ProbeResultName.testHttpResponse,
                    HttpResponseTests(url, r))
    \/ \E h \in Handshakes :
          ProbeAdds(ProbeResultName.testSSL, SSLTests(url, h))
    \/ \E hd \in HeaderSets :
          ProbeAdds(ProbeResultName.testSecurityHeaders,
                    SecurityHeadersTests(url, hd))

SpecProbes == InitProbes /\ [][NextProbes]_vars

----------------------------------------------------------------------------
(* The configuration methods of the Monitor, with what they return *)

\* The URLs a caller passes to addUrl and removeUrl.
ConfigUrls == {"https://a.example", "http://b.example"}

\* this.config.urls.indexOf(url): zero-based, -1 when absent.
IndexOf(s, x) ==
    IF Includes(s, x)
    THEN (CHOOSE i \in 1..Len(s) :
              s[i] = x /\ \A j \in 1..(i - 1) : s[j] # x) - 1
    ELSE -1

\* urls.splice(index, 1) for a zero-based index inside the array.
Splice(s, index) ==
    [i \in 1..(Len(s) - 1) |-> IF i <= index THEN s[i] ELSE s[i + 1]]

\* Faulty variant of addUrl: the URL is pushed without the includes test.
AddUrlUnchecked(cfg, u) ==
    [config |-> [cfg EXCEPT !.urls = Append(@, u)],
     saved  |-> TRUE,
     ret    |-> TRUE]

\* addUrl(url): the configuration it leaves, whether saveConfig ran, and
\* the value returned.
AddUrlTo(cfg, u) ==
    IF ~Includes(cfg.urls, u)
    THEN [config |-> [cfg EXCEPT !.urls = Append(@, u)],
          saved  |-> TRUE,
          ret    |-> TRUE]
    ELSE [config |-> cfg, saved |-> FALSE, ret |-> FALSE]

\* removeUrl(url)
RemoveUrlFrom(cfg, u) ==
    LET index == IndexOf(cfg.urls, u) IN
    IF index > -1
    THEN [config |-> [cfg EXCEPT !.urls = Splice(@, index)],
          saved  |-> TRUE,
          ret    |-> TRUE]
    ELSE [config |-> cfg, saved |-> FALSE, ret |-> FALSE]

\* Faulty variant of setTeam: the assignment without saveConfig.
SetTeamUnsaved(cfg, teamId) ==
    [config |-> [cfg EXCEPT !.teamId = teamId],
     saved  |-> FALSE,
     ret    |-> Undefined]

\* setTeam(teamId)
SetTeamOn(cfg, teamId) ==
    [config |-> [cfg EXCEPT !.teamId = teamId],
     saved  |-> TRUE,
     ret    |-> Undefined]

\* setAssignee(assigneeId)
SetAssigneeOn(cfg, assigneeId) ==
    [config |-> [cfg EXCEPT !.assigneeId = assigneeId],
     saved  |-> TRUE,
     ret    |-> Undefined]

\* getStatus(): the object returned; configured is the value of
\* urls.length > 0 && teamId.
GetStatusOf(cfg, st) ==
    [config |-> cfg,
     saved  |-> FALSE,
     ret    |-> [configured |-> IF Len(cfg.urls) > 0 THEN cfg.teamId
                                ELSE FALSE,
                 urls       |-> cfg.urls,
                 teamId     |-> cfg.teamId,
                 assigneeId |-> cfg.assigneeId,
                 lastCheck  |-> st.lastCheck,
                 thresholds |-> cfg.thresholds]]

\* One synchronous call of a configuration method on Monitor m: r is what
\* the method makes of this.config. The call is entered in calls with the
\* URL list before and after it.
ConfigCall(m, op, arg, r) ==
    /\ mpc[m] = "idle"
    /\ Len(calls) + Len(cycles) < MaxCalls
    /\ config' = [config EXCEPT ![m] = r.config]
    /\ configFile' = IF r.saved THEN <<r.config>> ELSE configFile
    /\ calls' = Append(calls, [op |-> op, arg |-> arg, ret |-> r.ret,
                               before |-> config[m].urls,
                               after |-> r.config.urls])
    /\ UNCHANGED <<mpc, state, frame, stateFile, apiKey, requests, console,
                   cycles, included, now>>
    /\ UNCHANGED otherVars

\* A list without duplicates.
DuplicateFree(s) == \A i, j \in 1..Len(s) : s[i] = s[j] => i = j

\* The configuration file holds a duplicate-free list of ConfigUrls.
InitConfig ==
    /\ ScanAtRest
    /\ apiKey = "lin_api_key"
    /\ \E urls \in {<<>>} \cup SeqsUpTo(ConfigUrls, Cardinality(ConfigUrls)) :
           DuplicateFree(urls) /\ MonitorWith(urls)

NextConfig ==
    \/ \E u \in ConfigUrls :
          ConfigCall(M1, "addUrl", u, AddUrlTo(config[M1], u))
    \/ \E u \in ConfigUrls :
          ConfigCall(M1, "removeUrl", u, RemoveUrlFrom(config[M1], u))
    \/ ConfigCall(M1, "setTeam", "TEAM", SetTeamOn(config[M1], "TEAM"))
    \/ ConfigCall(M1, "setAssignee", "USER",
                  SetAssigneeOn(config[M1], "USER"))
    \/ ConfigCall(M1, "getStatus", Undefined,
                  GetStatusOf(config[M1], state[M1]))
    \/ RunChecks(M1, FALSE, MaxCalls - Len(calls))
    \/ CheckNextUrl(M1, MaintenanceObservation)
    \/ FinishChecks(M1)
    \/ SendAlerts(M1)
    \/ \E outcome \in CreateOutcomes : CreateIssue(M1, outcome)
    \/ SendAlertsReturn(M1)

SpecConfig == InitConfig /\ [][NextConfig]_vars

\* The i-th configuration call was a call of op.
IsCall(i, op) == i \in 1..Len(calls) /\ calls[i].op = op

\* C23: the URL list stays duplicate-free; addUrl of a listed URL and
\* removeUrl of an unlisted one return false and leave the list as it was;
\* addUrl of an unlisted URL followed by removeUrl of that URL gives back
\* the list from before the addUrl.
C23_UrlListIsASet ==
    /\ DuplicateFree(config[M1].urls)
    /\ \A i \in 1..Len(calls) :
           /\ DuplicateFree(calls[i].after)
           /\ IsCall(i, "addUrl") /\ Includes(calls[i].before, calls[i].arg)
                => calls[i].ret = FALSE /\ calls[i].after = calls[i].before
           /\ IsCall(i, "removeUrl")
                /\ ~Includes(calls[i].before, calls[i].arg)
                => calls[i].ret = FALSE /\ calls[i].after = calls[i].before
           /\ IsCall(i, "addUrl") /\ ~Includes(calls[i].before, calls[i].arg)
                /\ IsCall(i + 1, "removeUrl")
                /\ calls[i + 1].arg = calls[i].arg
                => /\ calls[i + 1].before = calls[i].after
                   /\ calls[i + 1].after = calls[i].before

\* addUrl of a listed URL was refused, then an unlisted URL was added to a
\* non-empty list and removed again.
C23_Witness ==
    \E i, j \in 1..Len(calls) :
        /\ IsCall(i, "addUrl") /\ calls[i].ret = FALSE
        /\ IsCall(j, "addUrl") /\ calls[j].ret = TRUE
        /\ calls[j].before # <<>>
        /\ IsCall(j + 1, "removeUrl") /\ calls[j + 1].arg = calls[j].arg
        /\ calls[j + 1].ret = TRUE

\* C24: the configuration, in memory and on disk, changes only in a call
\* of addUrl, removeUrl, setTeam or setAssignee, and when one of them has
\* returned the file holds the configuration in memory; a monitoring cycle
\* and getStatus leave both alone.
C24_OnlyMutatorsChangeConfig ==
    [][LET called == Len(calls') = Len(calls) + 1
           last == calls'[Len(calls')]
           mutators == {"addUrl", "removeUrl", "setTeam", "setAssignee"} IN
       /\ (config' # config \/ configFile' # configFile)
            => called /\ last.op \in mutators
       /\ called /\ last.op \in mutators
            => /\ LoadConfig(configFile') = config'[M1]
               /\ config'[M1] # config[M1] => configFile' = <<config'[M1]>>
      ]_vars

\* setTeam and setAssignee were called around a monitoring cycle that
\* handed an Issue to the tracker.
C24_Witness ==
    /\ \E i, j \in 1..Len(calls) :
           IsCall(i, "setTeam") /\ IsCall(j, "setAssignee")
    /\ cycles # <<>>
    /\ requests # <<>>
    /\ configFile = <<config[M1]>>
    /\ config[M1].teamId = "TEAM"
    /\ config[M1].assigneeId = "USER"

----------------------------------------------------------------------------
(* The order of the probes *)

\* The place of probe fn in the tests array the registry declares for the
\* k-th selected category.
DeclaredAt(k, fn) ==
    CHOOSE j \in 1..Len(TEST_CATEGORIES[categories[k]].tests) :
        TEST_CATEGORIES[categories[k]].tests[j] = fn

\* C25: the probes run strictly one after the other: a probe is in flight
\* only while runTests waits for it, every probe invoked before it has
\* settled and belongs to an earlier category or stands earlier in the
\* registry's declaration of the same category, and the results appear in
\* the report in that same order.
C25_ProbesRunInSequence ==
    /\ \A i, j \in 1..Len(invoked) :
          i < j =>
             \/ invoked[i].cat < invoked[j].cat
             \/ /\ invoked[i].cat = invoked[j].cat
                /\ DeclaredAt(invoked[i].cat, invoked[i].fn)
                     < DeclaredAt(invoked[j].cat, invoked[j].fn)
    /\ pc = "probe" =>
          /\ ti \in 1..Len(TEST_CATEGORIES[categories[ci]].tests)
          /\ \A i \in 1..Len(invoked) :
                \/ invoked[i].cat < ci
                \/ /\ invoked[i].cat = ci
                   /\ DeclaredAt(ci, invoked[i].fn) < ti
          /\ Len(invoked) + 1 =
                Cardinality({e \in {ProbesFrom(categories, 1)[i] :
                                      i \in 1..Len(ProbesFrom(categories, 1))} :
                                e.cat < ci}) + ti
    /\ LET returned == SelectSeq(invoked, LAMBDA e : ~e.threw) IN
          /\ Len(results) = Len(returned)
          /\ \A k \in 1..Len(results) :
                results[k].name = ProbeResultName[returned[k].fn]

\* The second probe of the third category is in flight, after the probes
\* of two categories and its predecessor have settled.
C25_Witness ==
    /\ pc = "probe"
    /\ ci = 3
    /\ ti = 2
    /\ Len(invoked) = 4
    /\ Len(results) >= 2

----------------------------------------------------------------------------
(* Two Monitors on the same files *)

\* The clock moves on while a cycle waits for the network.
Elapse(ms, limit) ==
    /\ now + ms <= limit
    /\ now' = now + ms
    /\ UNCHANGED monVars
    /\ UNCHANGED otherVars

\* One URL is configured and saved; no Monitor has been constructed and no
\* state has been saved.
InitRace ==
    LET cfg == [DefaultConfig EXCEPT !.urls = <<"https://a.example">>] IN
    /\ ScanAtRest
    /\ mpc = [m \in Monitors |-> "absent"]
    /\ config = [m \in Monitors |-> DefaultConfig]
    /\ state = [m \in Monitors |-> DefaultState]
    /\ frame = [m \in Monitors |-> EmptyFrame]
    /\ configFile = <<cfg>>
    /\ stateFile = <<>>
    /\ apiKey = Null
    /\ requests = <<>>
    /\ console = <<>>
    /\ cycles = <<>>
    /\ calls = <<>>
    /\ included = <<>>

\* Two processes, each with its own Monitor, call monitor() whenever they
\* like.
NextRace ==
    \/ \E m \in Monitors : NewMonitor(m)
    \/ \E m \in Monitors : RunChecks(m, FALSE, MaxRaceCycles)
    \/ \E m \in Monitors : CheckNextUrl(m, MaintenanceObservation)
    \/ \E m \in Monitors : FinishChecks(m)
    \/ \E m \in Monitors : SendAlerts(m)
    \/ Elapse(HourMs, MaxRaceHours * HourMs)

SpecRace == InitRace /\ [][NextRace]_vars

\* C26: nothing protects the state file from a second writer. A Monitor
\* decides on its own alerts alone whether an Issue is new, and its
\* saveState replaces the file by its own state: the history it loaded
\* plus its own entry and its own alert timestamps, whatever another
\* Monitor has written to the file since.
C26_LastWriterWins ==
    [][\A m \in Monitors :
         /\ mpc[m] = "checking" /\ mpc'[m] = "checked" =>
              /\ stateFile' = <<state'[m]>>
              /\ stateFile'[1].alerts = state[m].alerts
              /\ stateFile'[1].history =
                    Truncate(Append(state[m].history,
                                    cycles'[Len(cycles')]))
         /\ Len(frame'[m].results) = Len(frame[m].results) + 1 =>
              LET r == frame'[m].results[Len(frame'[m].results)] IN
              \A i \in 1..Len(r.issues) :
                 LET k == AlertKey(r.url, r.issues[i]) IN
                 IsNew(state[m].alerts, k, now)
                    => InBatch(frame'[m].newIssues, k)]_vars

\* Both Monitors loaded the same state and their cycles overlap; both have
\* the same Issue in their batch, less than 4 hours apart; both have
\* saved, and the file holds neither the history entry nor the alert
\* timestamp the first of them wrote.
C26_Witness ==
    \E m, o \in Monitors :
        /\ m # o
        /\ mpc[m] = "checked" /\ mpc[o] = "checked"
        /\ Len(cycles) = 2
        /\ Len(state[m].history) = 1 /\ Len(state[o].history) = 1
        /\ stateFile = <<state[m]>>
        /\ cycles[1] = state[o].history[1]
        /\ \A i \in 1..Len(stateFile[1].history) :
              stateFile[1].history[i] # cycles[1]
        /\ \E k \in DOMAIN state[m].alerts \cap DOMAIN state[o].alerts :
              /\ InBatch(frame[m].newIssues, k)
              /\ InBatch(frame[o].newIssues, k)
              /\ state[o].alerts[k] < state[m].alerts[k]
              /\ state[m].alerts[k] - state[o].alerts[k] <= CooldownMs
              /\ stateFile[1].alerts[k] # state[o].alerts[k]

----------------------------------------------------------------------------
(* The check toggles *)

\* The configuration file switches each of the three checks on or off.
InitToggles ==
    /\ ScanAtRest
    /\ apiKey = Null
    /\ \E h, r, c \in BOOLEAN :
         LET cfg == [DefaultConfig EXCEPT
                        !.urls = <<"https://a.example">>,
                        !.checks.httpStatus = h,
                        !.checks.responseTime = r,
                        !.checks.sslExpiry = c] IN
         /\ config = [m \in Monitors |-> IF m = M1 THEN cfg
                                         ELSE DefaultConfig]
         /\ configFile = <<cfg>>
    /\ mpc = [m \in Monitors |-> IF m = M1 THEN "idle" ELSE "absent"]
    /\ state = [m \in Monitors |-> DefaultState]
    /\ frame = [m \in Monitors |-> EmptyFrame]
    /\ stateFile = <<>>
    /\ requests = <<>>
    /\ console = <<>>
    /\ cycles = <<>>
    /\ calls = <<>>
    /\ included = <<>>

NextToggles ==
    \/ RunChecks(M1, FALSE, MaxToggleCycles)
    \/ \E obs \in Observations : CheckNextUrl(M1, obs)
    \/ FinishChecks(M1)
    \/ Sleep(M1, HourMs \div 60)

SpecToggles == InitToggles /\ [][NextToggles]_vars

\* C27: checkUrl emits an Issue of a kind only when that kind's toggle is
\* on: no slow-response Issue with checks.responseTime off; no HTTP-status
\* and no connection-failure Issue with checks.httpStatus off, while the
\* latency check, when on, still reports a slow response; no certificate
\* Issue with checks.sslExpiry off.
C27_TogglesGateIssues ==
    \A n \in Checked :
        LET is == ResultOf(n).issues
            http == ObservedBy(n).http IN
        /\ ~config[M1].checks.responseTime
             => CountText(is, "Respuesta lenta") = 0
        /\ ~config[M1].checks.httpStatus
             => /\ CountText(is, "ERROR") = 0
                /\ CountText(is, "SITIO CAIDO") = 0
                /\ config[M1].checks.responseTime /\ ~http.threw
                     /\ http.responseTime > config[M1].thresholds.responseTime
                     => CountText(is, "Respuesta lenta") = 1
        /\ ~config[M1].checks.sslExpiry
             => /\ CountText(is, "CERTIFICADO SSL EXPIRADO") = 0
                /\ CountText(is, "SSL por expirar") = 0

----------------------------------------------------------------------------
(* Deduplication over the life of one Monitor *)

\* C28: with one Monitor, a clock that never runs backwards and a
\* duplicate-free URL list, no batch holds two Issues with the same dedup
\* key, and two inclusions of the same key lie more than 4 hours apart.
C28_OneAlertPerWindow ==
    /\ LET batch == frame[M1].newIssues IN
          \A i, j \in 1..Len(batch) :
             AlertKey(batch[i].url, batch[i]) = AlertKey(batch[j].url, batch[j])
                => i = j
    /\ \A i, j \in 1..Len(included) :
          i < j /\ included[i].key = included[j].key
             => included[j].at - included[i].at > 4 * HourMs

\* A batch holds two Issues, both of which were also in the batch of a
\* cycle six hours earlier.
C28_Witness ==
    /\ Len(frame[M1].newIssues) >= 2
    /\ Len(cycles) >= 1
    /\ \A j \in 1..Len(frame[M1].newIssues) :
          \E i \in 1..Len(included) :
             /\ included[i].key = AlertKey(frame[M1].newIssues[j].url,
                                           frame[M1].newIssues[j])
             /\ included[i].at = now - 6 * HourMs

\* One host is checked once an hour, and answers each time in one of the
\* four ways.
InitCooldown ==
    /\ ScanAtRest
    /\ apiKey = Null
    /\ MonitorWith(<<"https://a.example">>)

NextCooldown ==
    \/ RunChecks(M1, FALSE, MaxCooldownCycles)
    \/ \E obs \in MonitorObservations : CheckNextUrl(M1, obs)
    \/ FinishChecks(M1)
    \/ Sleep(M1, HourMs)

SpecCooldown == InitCooldown /\ [][NextCooldown]_vars

\* Key k was put in a batch at time t.
IncludedAt(k, t) ==
    \E i \in 1..Len(included) : included[i].key = k /\ included[i].at = t

\* C29: suppressing an Issue leaves alerts[key] at the time of its last
\* inclusion, so the 4-hour window does not slide: an Issue produced in
\* every cycle is suppressed in the cycles up to 4 hours after its last
\* inclusion and is in the batch of the first cycle later than that.
C29_WindowDoesNotSlide ==
    /\ \A k \in DOMAIN state[M1].alerts :
          /\ IncludedAt(k, state[M1].alerts[k])
          /\ \A i \in 1..Len(included) :
                included[i].key = k => included[i].at <= state[M1].alerts[k]
    /\ \A n \in Checked :
          \A i \in 1..Len(ResultOf(n).issues) :
             LET k == AlertKey(ResultOf(n).url, ResultOf(n).issues[i])
                 t == ResultOf(n).timestamp
                 before == {included[j].at :
                               j \in {x \in 1..Len(included) :
                                        /\ included[x].key = k
                                        /\ included[x].at < t}} IN
             IncludedAt(k, t) <=> \A b \in before : t - b > 4 * HourMs

\* The Issue is in the batch again in the sixth hourly cycle, five hours
\* after its first inclusion, the four cycles in between having
\* suppressed it.
C29_Witness ==
    /\ Len(cycles) = 5
    /\ mpc[M1] = "checking"
    /\ Len(frame[M1].newIssues) = 1
    /\ Len(included) = 2
    /\ included[2].key = included[1].key
    /\ included[2].at = included[1].at + 5 * HourMs
    /\ \A n \in 1..Len(cycles) : cycles[n].results[1].status = "critical"

----------------------------------------------------------------------------
(* Persistence within monitor() *)

\* C30: monitor() persists the state once per cycle, when every configured
\* URL has been processed and before sendAlerts gets an Issue; after the
\* cycle lastCheck is the timestamp of the last history entry, and that
\* entry holds one (url, status) pair per configured URL, in configuration
\* order.
C30_PersistedOncePerCycle ==
    [][LET cycleEnds == mpc[M1] = "checking" /\ mpc'[M1] # "checking" IN
       /\ cycleEnds =>
            LET h == state'[M1].history IN
            /\ stateFile' = <<state'[M1]>>
            /\ Len(cycles') = Len(cycles) + 1
            /\ Len(frame[M1].results) = Len(config[M1].urls)
            /\ h # <<>>
            /\ state'[M1].lastCheck = h[Len(h)].timestamp
            /\ h[Len(h)].results =
                  [n \in 1..Len(config[M1].urls) |->
                      [url    |-> config[M1].urls[n],
                       status |-> frame[M1].results[n].status]]
       /\ stateFile' # stateFile => cycleEnds
       /\ (mpc'[M1] = "sending"
              \/ (mpc[M1] = "sending" /\ requests' # requests))
            => /\ stateFile' = <<state'[M1]>>
               /\ stateFile' = stateFile
               /\ cycles # <<>>
               /\ state[M1].history[Len(state[M1].history)]
                     = cycles[Len(cycles)]
      ]_vars

====
